---- MODULE Spec2Model ----
(***************************************************************************)
(* RenderMind: the instruction-to-execution pipeline of the Blender add-on. *)
(*                                                                         *)
(* A script is a sequence of lexical fragments (tokens).  The text of a    *)
(* script is the concatenation of its tokens; the alphabet is chosen so    *)
(* that a substring or regular-expression match on the text is a match on  *)
(* consecutive tokens.                                                     *)
(***************************************************************************)
EXTENDS Naturals, Integers, Sequences, FiniteSets, TLC

VARIABLES
    script,         \* FilterSpec: the candidate script handed to the Safety Filter
    keyboard,       \* FilterSpec: which alphabet the candidate is typed from
    verdict,        \* FilterSpec: result of the last validate_code_safety call
    chat_messages,  \* RMProps.chat_messages: the conversation log
    chat_input,     \* RMProps.chat_input
    is_thinking,    \* RMProps.is_thinking
    auto_execute,   \* RMProps.auto_execute
    plan_text,      \* RMProps.plan_text (a sequence of plan tokens)
    history,        \* RMProps.history
    tmp_scenes,     \* temporary preview scenes still in bpy.data.scenes
    main,           \* the main thread: idle, or inside generate_blender_code
    timers,         \* bpy.app.timers: callbacks registered and not yet run
    last,           \* the last handler that finished: where it ran and what it did
    wire,           \* the frames that handler put on the websocket connections
    query,          \* GatewaySpec: the prompt given to generate_blender_code
    assets,         \* GatewaySpec: the files of the assets directory, in os.walk order
    env,            \* GatewaySpec: requests library, API key and provider setting
    reply,          \* GatewaySpec: what the HTTP request to the backend will do
    matches,        \* GatewaySpec: the list search_models returned last
    generated,      \* GatewaySpec: what generate_blender_code returned last
    imported,       \* GatewaySpec: the last run of a generated import script
    config,         \* SettingsSpec: the lines of the .env file next to model_interface.py
    props,          \* SettingsSpec: the settings entered in the panel (scene.rm_props)
    settings,       \* SettingsSpec: what get_api_key and get_model_settings returned last
    server,         \* ServerSpec: server_running, the server threads and the listening sockets
    connected_clients, \* BroadcastSpec: the connections in the global set, open or closed
    delivered       \* BroadcastSpec: the outcome of the last broadcast_to_clients

filterVars == <<script, keyboard, verdict>>
mainVars == <<chat_messages, chat_input, is_thinking, auto_execute, plan_text, history,
              tmp_scenes, main, timers, last, wire>>
gatewayVars == <<query, assets, env, reply, matches, generated, imported>>
hostVars == <<config, props, settings, server, connected_clients, delivered>>
vars == <<filterVars, mainVars, gatewayVars, hostVars>>

(***************************************************************************)
(* Lexical classes                                                         *)
(***************************************************************************)

\* Tokens matched by the regular expression class \s
Indent == "    "
WsTok == {" ", "\n", Indent}

\* One-line statements carried as a single token
DefOk    == "def rendermind_action(context): bpy.ops.mesh.primitive_cube_add()"
DefRaise == "def rendermind_action(context): raise ValueError('boom')"
DefImport == "def rendermind_action(context): bpy.ops.import_scene.obj(filepath=model_path)"
TopRaise == "raise ValueError('boom')"

\* The lines plan_emitter.py writes, each a single token
EmitHeader   == "def rendermind_action(context: dict) -> None:"
SphereAdd05  == "bpy.ops.mesh.primitive_uv_sphere_add(radius=0.5, location=(0,0,0.5))"
SphereAdd03  == "bpy.ops.mesh.primitive_uv_sphere_add(radius=0.3, location=(0,0,0.5))"
CylinderAdd  == "bpy.ops.mesh.primitive_cylinder_add(radius=0.25, depth=0.6, location=(0,1,0.3))"
ActiveObject == "obj = bpy.context.active_object"
NameSphere   == "obj.name = 'rm_sphere'"
NameCylinder == "obj.name = 'rm_cylinder'"
MatSphere    == "mat = bpy.data.materials.new('rm_mat')"
MatCylinder  == "mat = bpy.data.materials.new('rm_ceramic')"
UseNodes     == "mat.use_nodes = True"
GetBsdf      == "bsdf = mat.node_tree.nodes.get('Principled BSDF')"
BaseColor    == "if bsdf: bsdf.inputs['Base Color'].default_value=(0.8,0.2,0.2,1)"
Roughness    == "if bsdf: bsdf.inputs['Roughness'].default_value = 0.15"
AppendMat    == "obj.data.materials.append(mat)"
Placeholder  == "# Plan not implemented in emitter placeholder"
PrintNotImpl == "print('Plan not implemented')"

HeaderTok  == {EmitHeader}
CommentTok == {Placeholder}
StmtTok  == {DefOk, DefRaise, DefImport, TopRaise, SphereAdd05, SphereAdd03, CylinderAdd,
             ActiveObject, NameSphere, NameCylinder, MatSphere, MatCylinder, UseNodes,
             GetBsdf, BaseColor, Roughness, AppendMat, PrintNotImpl}

\* The closing of a call with its argument
ArgClose == "'/data')"

\* Tokens that are neither \s nor \w+
SymTok == {".", "(", ")", ArgClose}

\* F applied to the value of v, which is computed once
With(v, F(_)) == CHOOSE y \in {F(x) : x \in {v}} : TRUE

IsWs(t)   == t \in WsTok
IsWord(t) == t \notin WsTok \cup SymTok \cup StmtTok \cup HeaderTok \cup CommentTok

\* re.IGNORECASE: the lower-case form of a token
Lower(t) ==
    CASE t = "OPEN" -> "open"
      [] t = "EVAL" -> "eval"
      [] t = "OS"   -> "os"
      [] OTHER      -> t

(***************************************************************************)
(* utils/safe_filters.py                                                   *)
(***************************************************************************)

\* The marker for the regular expression \s+ inside a pattern
WsPlus == "\\s+"

DANGEROUS_PATTERNS ==
    << <<"os", ".", "system">>,
       <<"os", ".", "remove">>,
       <<"os", ".", "rmdir">>,
       <<"shutil", ".", "rmtree">>,
       <<"subprocess", ".">>,
       <<"urllib", ".", "request">>,
       <<"requests", ".">>,
       <<"socket", ".">>,
       <<"http", ".">>,
       <<"eval", "(">>,
       <<"exec", "(">>,
       <<"__import__">>,
       <<"compile", "(">>,
       <<"open", "(">>,
       <<"file", "(">>,
       <<"with", WsPlus, "open">> >>

ALLOWED_IMPORTS == {"bpy", "mathutils", "bmesh", "math", "random", "datetime"}

\* Index of the last token of the maximal run of tokens satisfying the class
\* test that starts at i (i - 1 when the run is empty)
RECURSIVE WsRunEnd(_, _)
WsRunEnd(code, i) ==
    IF i <= Len(code) /\ IsWs(code[i]) THEN WsRunEnd(code, i + 1) ELSE i - 1

RECURSIVE WordRunEnd(_, _)
WordRunEnd(code, i) ==
    IF i <= Len(code) /\ IsWord(code[i]) THEN WordRunEnd(code, i + 1) ELSE i - 1

\* re.match of pattern pat (from element k on) at token i of code, with
\* re.IGNORECASE: the index of the last matched token, or 0 for no match
RECURSIVE MatchEnd(_, _, _, _)
MatchEnd(pat, k, code, i) ==
    IF k > Len(pat) THEN i - 1
    ELSE IF i > Len(code) THEN 0
    ELSE IF pat[k] = WsPlus
         THEN IF IsWs(code[i])
              THEN With(WsRunEnd(code, i) + 1, LAMBDA n : MatchEnd(pat, k + 1, code, n))
              ELSE 0
    ELSE IF Lower(code[i]) = Lower(pat[k]) THEN MatchEnd(pat, k + 1, code, i + 1)
    ELSE 0

\* re.finditer(pattern, code, re.IGNORECASE) scanning from token i: the
\* non-overlapping matches, leftmost first
RECURSIVE FindIter(_, _, _, _)
FindIter(p, pat, code, i) ==
    IF i > Len(code) THEN << >>
    ELSE With(MatchEnd(pat, 1, code, i), LAMBDA e :
         IF e = 0 THEN FindIter(p, pat, code, i + 1)
         ELSE << [pattern |-> p, match |-> SubSeq(code, i, e), position |-> i - 1] >>
              \o FindIter(p, pat, code, e + 1))

\* A check_dangerous_patterns that stops at the first match of the first
\* matching pattern
RECURSIVE FirstMatchOnly(_, _)
FirstMatchOnly(code, p) ==
    IF p > Len(DANGEROUS_PATTERNS) THEN << >>
    ELSE LET ms == FindIter(p, DANGEROUS_PATTERNS[p], code, 1) IN
         IF ms # << >> THEN << ms[1] >> ELSE FirstMatchOnly(code, p + 1)

PatternViolationsFirstOnly(code) == FirstMatchOnly(code, 1)

\* The violations list built by the two loops of check_dangerous_patterns
RECURSIVE ViolationsFrom(_, _)
ViolationsFrom(code, p) ==
    IF p > Len(DANGEROUS_PATTERNS) THEN << >>
    ELSE FindIter(p, DANGEROUS_PATTERNS[p], code, 1) \o ViolationsFrom(code, p + 1)

PatternViolations(code) == ViolationsFrom(code, 1)

\* check_dangerous_patterns: (is_safe, violations)
check_dangerous_patterns(code) ==
    LET violations == PatternViolations(code) IN
    [is_safe |-> Len(violations) = 0, violations |-> violations]

\* re.finditer(r'(?:from|import)\s+(\w+)', code) from token i: group(1) of
\* every match, each a run of word tokens
RECURSIVE ImportMatches(_, _)
ImportMatches(code, i) ==
    IF i > Len(code) THEN << >>
    ELSE IF code[i] \in {"from", "import"} /\ i + 1 <= Len(code) /\ IsWs(code[i + 1])
         THEN With(WsRunEnd(code, i + 1) + 1, LAMBDA w :
              With(WordRunEnd(code, w), LAMBDA e :
                  IF e >= w
                  THEN << SubSeq(code, w, e) >> \o ImportMatches(code, e + 1)
                  ELSE ImportMatches(code, i + 1)))
    ELSE ImportMatches(code, i + 1)

\* module not in ALLOWED_IMPORTS
ModuleAllowed(module) == Len(module) = 1 /\ module[1] \in ALLOWED_IMPORTS

\* check_imports: (is_safe, disallowed)
check_imports(code) ==
    LET ms == ImportMatches(code, 1)
        disallowed == SelectSeq(ms, LAMBDA m : ~ModuleAllowed(m))
    IN  [is_safe |-> Len(disallowed) = 0, disallowed |-> disallowed]

(***************************************************************************)
(* compile(code, '<string>', 'exec'): the fragment of the Python grammar   *)
(* that the scripts of this model are written in.                          *)
(***************************************************************************)

Keywords == {"import", "from", "with"}

\* The lines of a script: split at "\n"
RECURSIVE LinesFrom(_, _, _)
LinesFrom(code, i, cur) ==
    IF i > Len(code) THEN << cur >>
    ELSE IF code[i] = "\n" THEN << cur >> \o LinesFrom(code, i + 1, << >>)
    ELSE LinesFrom(code, i + 1, Append(cur, code[i]))

Lines(code) == LinesFrom(code, 1, << >>)

\* Tokenizer: runs of blanks become one "ws" lexeme, runs of word tokens one
\* "name" lexeme (adjacent word tokens are one identifier in the text), a
\* single keyword token a "kw" lexeme; every other token is its own lexeme
OtherKind(t) ==
    IF t \in StmtTok THEN "stmt"
    ELSE IF t \in HeaderTok THEN "header"
    ELSE IF t \in CommentTok THEN "comment"
    ELSE "sym"

RECURSIVE Lex(_, _)
Lex(line, i) ==
    IF i > Len(line) THEN << >>
    ELSE IF IsWs(line[i])
         THEN With(WsRunEnd(line, i) + 1, LAMBDA n :
                  << [k |-> "ws", run |-> << >>] >> \o Lex(line, n))
    ELSE IF IsWord(line[i])
         THEN With(WordRunEnd(line, i), LAMBDA e :
                  << [k |-> IF e = i /\ line[i] \in Keywords THEN "kw" ELSE "name",
                      run |-> SubSeq(line, i, e)] >> \o Lex(line, e + 1))
    ELSE << [k |-> OtherKind(line[i]), run |-> << line[i] >>] >> \o Lex(line, i + 1)

\* A line without its trailing blanks and its trailing comment
RECURSIVE StripRight(_)
StripRight(lx) ==
    IF lx # << >> /\ lx[Len(lx)].k \in {"ws", "comment"}
    THEN With(SubSeq(lx, 1, Len(lx) - 1), LAMBDA rest : StripRight(rest))
    ELSE lx

Kinds(lx) == [j \in 1..Len(lx) |-> lx[j].k]

IsKw(x, word) == x.k = "kw" /\ x.run = << word >>
IsSym(x, s)   == x.k = "sym" /\ x.run = << s >>

\* The simple statement a lexeme list is: "import", "from_import", "name",
\* "call", "stmt", "header", or "invalid" for one the grammar rejects
StatementForm(lx) ==
    LET ks == Kinds(lx) IN
    IF ks = <<"kw", "ws", "name">> /\ IsKw(lx[1], "import") THEN "import"
    ELSE IF ks = <<"kw", "ws", "name", "ws", "kw", "ws", "name">>
            /\ IsKw(lx[1], "from") /\ IsKw(lx[5], "import") THEN "from_import"
    ELSE IF ks = <<"name">> THEN "name"
    ELSE IF ks = <<"name", "sym", "name", "sym", "sym">>
            /\ IsSym(lx[2], ".") /\ IsSym(lx[4], "(") /\ IsSym(lx[5], ArgClose) THEN "call"
    ELSE IF ks = <<"stmt">> THEN "stmt"
    ELSE IF ks = <<"header">> THEN "header"
    ELSE "invalid"

\* A line of a script: its indentation and its statement ("blank" for an empty
\* or comment-only line)
LineForm(line) ==
    With(StripRight(Lex(line, 1)), LAMBDA lx :
        IF lx = << >> THEN [indented |-> FALSE, form |-> "blank"]
        ELSE IF lx[1].k = "ws"
        THEN [indented |-> TRUE,
              form |-> With(SubSeq(lx, 2, Len(lx)), LAMBDA body : StatementForm(body))]
        ELSE [indented |-> FALSE, form |-> StatementForm(lx)])

\* The forms of the lines that are not blank
Statements(code) ==
    With(Lines(code), LAMBDA ls :
        SelectSeq([j \in 1..Len(ls) |-> LineForm(ls[j])], LAMBDA f : f.form # "blank"))

\* compile() raises no SyntaxError: every statement is one of the grammar, a
\* function header is followed by an indented body, and only a body is indented
ParsesCleanly(code) ==
    With(Statements(code), LAMBDA st :
      \A j \in 1..Len(st) :
        /\ st[j].form # "invalid"
        /\ st[j].form = "header" => (~st[j].indented /\ j < Len(st) /\ st[j + 1].indented)
        /\ st[j].indented =>
              (j > 1 /\ st[j].form # "header"
                 /\ (st[j - 1].indented \/ st[j - 1].form = "header")))

\* No validate_code_safety call has been made
NoVerdict == [is_safe |-> FALSE, kind |-> "not_run", items |-> << >>]

\* validate_code_safety: (is_safe, error_message); the message is kept as its
\* kind and the list of items it joins with ', '
validate_code_safety(code) ==
    LET pat == check_dangerous_patterns(code)
        imp == check_imports(code)
    IN  IF ~pat.is_safe
        THEN [is_safe |-> FALSE, kind |-> "patterns",
              items |-> [j \in 1..Len(pat.violations) |-> pat.violations[j].match]]
        ELSE IF ~imp.is_safe
        THEN [is_safe |-> FALSE, kind |-> "imports", items |-> imp.disallowed]
        ELSE IF ~ParsesCleanly(code)
        THEN [is_safe |-> FALSE, kind |-> "syntax", items |-> << >>]
        ELSE [is_safe |-> TRUE, kind |-> "none", items |-> << >>]

(***************************************************************************)
(* exec(script, namespace): what running a script's top level does         *)
(***************************************************************************)

\* Modules an import statement finds in Blender's Python
Importable == ALLOWED_IMPORTS \cup {"os", "shutil", "subprocess", "socket", "pathlib"}

\* Calls that delete or run things outside the scene
HarmfulCalls == { <<"os", "remove">>, <<"os", "system">>, <<"shutil", "rmtree">> }

\* The names bound in the namespace a script is run in
EmptyNamespace    == {}
OperatorsGlobals  == {"bpy", "traceback", "os", "datetime", "model_interface",
                      "plan_emitter", "blender_utils"}
ServerGlobals     == {"bpy", "json", "threading", "asyncio", "os", "Path", "datetime",
                      "websockets"}

\* The statements of the top level, in order: st is the list of non-blank
\* lines, r the run so far.  A raise stops the run.
RECURSIVE RunTop(_, _, _)
RunTop(ls, j, r) ==
    IF j > Len(ls) \/ r.err # "" THEN r
    ELSE With(LineForm(ls[j]), LAMBDA f :
         With(StripRight(Lex(ls[j], 1)), LAMBDA lx :
         IF f.form = "blank" \/ f.indented THEN RunTop(ls, j + 1, r)
         ELSE IF f.form = "import"
         THEN IF Len(lx[3].run) = 1 /\ lx[3].run[1] \in Importable
              THEN RunTop(ls, j + 1, [r EXCEPT !.names = @ \cup {lx[3].run[1]}])
              ELSE [r EXCEPT !.err = "top_level"]
         ELSE IF f.form = "from_import"
         THEN IF Len(lx[3].run) = 1 /\ lx[3].run[1] \in Importable /\ Len(lx[7].run) = 1
              THEN RunTop(ls, j + 1, [r EXCEPT !.names = @ \cup {lx[7].run[1]}])
              ELSE [r EXCEPT !.err = "top_level"]
         ELSE IF f.form = "name"
         THEN IF Len(lx[1].run) = 1 /\ lx[1].run[1] \in r.names
              THEN RunTop(ls, j + 1, r)
              ELSE [r EXCEPT !.err = "top_level"]
         ELSE IF f.form = "call"
         THEN IF Len(lx[1].run) = 1 /\ lx[1].run[1] \in r.names
                 /\ Len(lx[3].run) = 1 /\ <<lx[1].run[1], lx[3].run[1]>> \in HarmfulCalls
              THEN RunTop(ls, j + 1, [r EXCEPT !.harm = TRUE])
              ELSE [r EXCEPT !.err = "top_level"]
         ELSE IF f.form = "header"
         THEN RunTop(ls, j + 1, [r EXCEPT !.entry = "ok"])
         ELSE IF lx[1].run[1] \in {DefOk, DefImport}
         THEN RunTop(ls, j + 1, [r EXCEPT !.entry = "ok"])
         ELSE IF lx[1].run[1] = DefRaise
         THEN RunTop(ls, j + 1, [r EXCEPT !.entry = "raises"])
         ELSE [r EXCEPT !.err = "top_level"]))

\* exec(src, ns): err is "" (ran to the end), "syntax" (nothing ran) or
\* "top_level" (a statement raised); entry is what rendermind_action is bound
\* to afterwards ("none", "ok", "raises"); harm tells whether a harmful call ran
Exec(src, ns) ==
    IF ~ParsesCleanly(src)
    THEN [err |-> "syntax", entry |-> "none", harm |-> FALSE, names |-> ns]
    ELSE With(Lines(src), LAMBDA ls :
             RunTop(ls, 1, [err |-> "", entry |-> "none", harm |-> FALSE, names |-> ns]))

(***************************************************************************)
(* blender_addon/blender_utils.py                                          *)
(***************************************************************************)

FORBIDDEN_TOKENS ==
    << <<"import", " ", "os">>,
       <<"subprocess">>,
       <<"open", "(">>,
       <<"__import__">>,
       <<"eval", "(">>,
       <<"exec", "(">>,
       <<"os", ".", "system">>,
       <<"bpy", ".", "ops", ".", "wm", ".", "open_mainfile">>,
       <<"bpy", ".", "ops", ".", "wm", ".", "read_homefile">> >>

\* tok in src
Contains(src, tok) ==
    \E i \in 1..Len(src) :
        i + Len(tok) - 1 <= Len(src) /\ SubSeq(src, i, i + Len(tok) - 1) = tok

\* A validate_script that never raises
validate_script_accepts_all(src) == TRUE

\* validate_script: TRUE when it returns, FALSE when it raises RuntimeError
validate_script(src) ==
    \A k \in 1..Len(FORBIDDEN_TOKENS) : ~Contains(src, FORBIDDEN_TOKENS[k])

\* The record of one run: error raised ("" for none), whether exec() was
\* reached, whether rendermind_action was called, and the effects
RunResult(err, ran, called, mutated, harm) ==
    [err |-> err, ran |-> ran, called |-> called, mutated |-> mutated, harm |-> harm]

\* exec_script_in_current_scene(script_src)
exec_script_in_current_scene(src) ==
    IF ~validate_script(src) THEN RunResult("unsafe_token", FALSE, FALSE, FALSE, FALSE)
    ELSE With(Exec(src, EmptyNamespace), LAMBDA x :
         IF x.err # "" THEN RunResult(x.err, TRUE, FALSE, FALSE, x.harm)
         ELSE IF x.entry = "none" THEN RunResult("no_entry_point", TRUE, FALSE, FALSE, x.harm)
         ELSE IF x.entry = "raises" THEN RunResult("entry_raised", TRUE, TRUE, FALSE, x.harm)
         ELSE RunResult("", TRUE, TRUE, TRUE, x.harm))

\* blender_utils.validate_script(code); exec(code, globals()): the run of the
\* operators and of the websocket server, which never calls rendermind_action
validate_then_exec(src, ns) ==
    IF ~validate_script(src) THEN RunResult("unsafe_token", FALSE, FALSE, FALSE, FALSE)
    ELSE With(Exec(src, ns), LAMBDA x : RunResult(x.err, TRUE, FALSE, FALSE, x.harm))

(***************************************************************************)
(* blender_addon/plan_emitter.py                                           *)
(***************************************************************************)

\* The first index >= i of plan p holding a token of set S (Len(p) + 1 if none)
RECURSIVE FirstIn(_, _, _)
FirstIn(p, i, S) == IF i > Len(p) \/ p[i] \in S THEN i ELSE FirstIn(p, i + 1, S)

RECURSIVE FirstNotIn(_, _, _)
FirstNotIn(p, i, S) == IF i > Len(p) \/ p[i] \notin S THEN i ELSE FirstNotIn(p, i + 1, S)

\* str.lower() of a plan
PlanLower(plan) ==
    [i \in 1..Len(plan) |->
        CASE plan[i] = "Sphere" -> "sphere"
          [] plan[i] = "R="     -> "r="
          [] OTHER              -> plan[i]]

\* str.strip(");")
RECURSIVE StripClosers(_)
StripClosers(text) ==
    IF text # << >> /\ Head(text) \in {")", ";"}
    THEN With(Tail(text), LAMBDA rest : StripClosers(rest))
    ELSE IF text # << >> /\ text[Len(text)] \in {")", ";"}
    THEN With(SubSeq(text, 1, Len(text) - 1), LAMBDA rest : StripClosers(rest))
    ELSE text

\* float(p[ii:].split(",")[0].split()[0].strip(");")) for the text after the
\* first "r=": the radius as f"{r}" prints it, or that of the default 0.5 when
\* the parse raises
ParseRadius(p) ==
    LET ii    == FirstIn(p, 1, {"r="}) + 1
        comma == FirstIn(p, ii, {","})
        from  == FirstNotIn(p, ii, {" "})
        to    == FirstIn(p, from, {" ", ","})
        piece == IF from < comma THEN SubSeq(p, from, to - 1) ELSE << >>
    IN  IF StripClosers(piece) = << "0.3" >> THEN "0.3" ELSE "0.5"

Body(stmts) == [j \in 1..(3 * Len(stmts)) |->
                   IF j % 3 = 1 THEN "\n" ELSE IF j % 3 = 2 THEN Indent ELSE stmts[j \div 3]]

EmitHead == << EmitHeader, "\n", Indent, "import", " ", "bpy" >>

\* An emitter without the else branch of line 58: the cylinder template for
\* every plan that is no sphere
emitter_without_placeholder(plan) ==
    With(PlanLower(plan), LAMBDA p :
        IF \E i \in 1..Len(p) : p[i] = "sphere"
        THEN EmitHead \o Body(<< SphereAdd05, ActiveObject, NameSphere, MatSphere,
                                 UseNodes, GetBsdf, BaseColor, AppendMat >>)
        ELSE EmitHead \o Body(<< CylinderAdd, ActiveObject, NameCylinder, MatCylinder,
                                 UseNodes, GetBsdf, Roughness, AppendMat >>))

\* emitter_plan_to_script(plan)
emitter_plan_to_script(plan) ==
    With(PlanLower(plan), LAMBDA p :
        LET HasTok(t) == \E i \in 1..Len(p) : p[i] = t
        IN  IF HasTok("sphere")
            THEN LET r == IF HasTok("r=") THEN ParseRadius(p) ELSE "0.5" IN
                 EmitHead \o Body(<< IF r = "0.3" THEN SphereAdd03 ELSE SphereAdd05,
                                     ActiveObject, NameSphere, MatSphere, UseNodes, GetBsdf,
                                     BaseColor, AppendMat >>)
            ELSE IF HasTok("cylinder")
            THEN EmitHead \o Body(<< CylinderAdd, ActiveObject, NameCylinder, MatCylinder,
                                     UseNodes, GetBsdf, Roughness, AppendMat >>)
            ELSE EmitHead \o Body(<< Placeholder, PrintNotImpl >>))

(***************************************************************************)
(* The scripts and inputs of the model                                     *)
(***************************************************************************)

ScriptGood      == << "import", " ", "bpy", "\n", DefOk >>
ScriptRaises    == << "import", " ", "bpy", "\n", DefRaise >>
ScriptImportOs  == << "import", " ", "os", "\n", DefOk >>
ScriptRmtree    == << "import", " ", "shutil", "\n",
                      "shutil", ".", "rmtree", "(", ArgClose, "\n", DefOk >>
ScriptEmpty     == << >>

\* What generate_import_code writes for a library model
ImportScript    == << "import", " ", "bpy", "\n",
                      "from", " ", "pathlib", " ", "import", " ", "Path", "\n", DefImport >>

\* The code a language model may answer with, and a client may send
LmScripts == {ScriptGood, ScriptRaises, ScriptImportOs, ScriptRmtree, ScriptEmpty}
WsScripts == {ScriptGood, ScriptImportOs, ScriptRmtree}

Inputs     == {" ", "add a cube"}
WsContents == {"add a cube"}
Plans      == { << >>, << "uv_", "sphere", " ", "r=", "0.3" >>, << "cylinder" >> }

\* str.strip()
Strip(text) == IF text = " " THEN "" ELSE text

MaxTurns     == 4
MaxTimers    == 1
MaxTmpScenes == 2

(***************************************************************************)
(* model_interface.generate_blender_code, by what it returns               *)
(***************************************************************************)

\* What the call will do: use a library model, call the backend, or return
\* without a network call (no credential, no requests library, Ollama)
Routes == {"asset", "backend", "local"}

\* (code, ai_message, error) or an exception; calls counts the HTTP requests
GenerateOutcomes(route) ==
    IF route = "asset"
    THEN {[kind |-> "ok", code |-> ImportScript, calls |-> 0]}
    ELSE IF route = "local"
    THEN {[kind |-> "error", code |-> << >>, calls |-> 0]}
    ELSE {[kind |-> "error", code |-> << >>, calls |-> 1],
          [kind |-> "raise", code |-> << >>, calls |-> 1]}
         \cup {[kind |-> "ok", code |-> c, calls |-> 1] : c \in LmScripts}

(***************************************************************************)
(* blender_addon/operators.py: the chat operators                          *)
(***************************************************************************)

NoRun == [err |-> "", ran |-> FALSE, called |-> FALSE, mutated |-> FALSE, harm |-> FALSE]

Turn(role, content, code, status, error_msg, ran, calls) ==
    [role |-> role, content |-> content, code |-> code, status |-> status,
     error_msg |-> error_msg, g_ran |-> ran, g_calls |-> calls]

UserTurn(content) == Turn("USER", content, << >>, "NONE", "", FALSE, 0)

\* The AI turn of a backend error: status ERROR, the error kept, no code
ErrorTurn(calls) == Turn("AI", "Sorry, I encountered an error", << >>, "ERROR", "backend", FALSE, calls)

\* The SYSTEM turn of the outer except
SystemTurn == Turn("SYSTEM", "Error", << >>, "ERROR", "", FALSE, 0)

\* An AI turn that does not keep the generated code
AiTurnWithoutCode(code, calls) == Turn("AI", "reply", << >>, "NONE", "", FALSE, calls)

\* The AI turn of a generated answer, before it is run
AiTurn(code, calls) == Turn("AI", "reply", code, "NONE", "", FALSE, calls)

\* A run whose success after a failure puts the turn back to status NONE
ExecutedForgetsFailure(turn, r) ==
    [turn EXCEPT !.status = IF r.err # "" THEN "ERROR"
                            ELSE IF turn.status = "ERROR" THEN "NONE" ELSE "SUCCESS",
                 !.error_msg = r.err,
                 !.g_ran = @ \/ r.ran]

\* The turn after its code was run with result r
Executed(turn, r) ==
    [turn EXCEPT !.status = IF r.err = "" THEN "SUCCESS" ELSE "ERROR",
                 !.error_msg = r.err,
                 !.g_ran = @ \/ r.ran]

\* What a handler leaves behind: its name, the thread it ran on, what it
\* reported, and the script it ran (path "none" when it ran nothing)
Done(op, ctx, report, path, src, run) ==
    [op |-> op, ctx |-> ctx, report |-> report, path |-> path, script |-> src, run |-> run]

Idle == [busy |-> FALSE, via |-> "none", prompt |-> "", route |-> "none"]

\* A reply in which the exception of a failed run leaves the inner try: the
\* outer except adds a SYSTEM turn
SendReplyNoCatch(msgs, gen, auto) ==
    IF gen.kind = "error"
    THEN [msgs |-> Append(msgs, ErrorTurn(gen.calls)), report |-> "ERROR",
          path |-> "none", run |-> NoRun]
    ELSE IF gen.kind = "raise"
    THEN [msgs |-> Append(msgs, SystemTurn), report |-> "ERROR", path |-> "none", run |-> NoRun]
    ELSE IF auto
    THEN With(exec_script_in_current_scene(gen.code), LAMBDA r :
         IF r.err = ""
         THEN [msgs |-> Append(msgs, Executed(AiTurn(gen.code, gen.calls), r)),
               report |-> "INFO", path |-> "auto", run |-> r]
         ELSE [msgs |-> Append(Append(msgs, AiTurn(gen.code, gen.calls)), SystemTurn),
               report |-> "ERROR", path |-> "auto", run |-> r])
    ELSE [msgs |-> Append(msgs, AiTurn(gen.code, gen.calls)), report |-> "INFO",
          path |-> "none", run |-> NoRun]

\* A reply that runs the script although the backend reported an error or
\* validation refused it
SendReplyRunsAnyway(msgs, gen, auto) ==
    IF gen.kind = "raise"
    THEN [msgs |-> Append(msgs, SystemTurn), report |-> "ERROR", path |-> "none", run |-> NoRun]
    ELSE IF auto
    THEN With(Exec(gen.code, EmptyNamespace), LAMBDA x :
         With(RunResult(IF gen.kind = "error" THEN "backend"
                        ELSE IF ~validate_script(gen.code) THEN "unsafe_token"
                        ELSE x.err, TRUE, FALSE, FALSE, x.harm), LAMBDA r :
             [msgs |-> Append(msgs, Executed(AiTurn(gen.code, gen.calls), r)),
              report |-> IF r.err = "" THEN "INFO" ELSE "WARNING", path |-> "auto",
              run |-> r]))
    ELSE [msgs |-> Append(msgs, AiTurn(gen.code, gen.calls)), report |-> "INFO",
          path |-> "none", run |-> NoRun]

\* A reply that puts the AI turn in the place of the USER turn
SendReplyOverwrites(msgs, gen, auto) ==
    [msgs |-> Append(SubSeq(msgs, 1, Len(msgs) - 1), AiTurn(gen.code, gen.calls)),
     report |-> "INFO", path |-> "none", run |-> NoRun]

\* RM_OT_SendMessage.execute after generate_blender_code has returned gen (the
\* same statements make up add_message of the websocket server): the log, the
\* report, and the run of the generated script
SendReply(msgs, gen, auto) ==
    IF gen.kind = "error"
    THEN [msgs |-> Append(msgs, ErrorTurn(gen.calls)), report |-> "ERROR",
          path |-> "none", run |-> NoRun]
    ELSE IF gen.kind = "raise"
    THEN [msgs |-> Append(msgs, SystemTurn), report |-> "ERROR", path |-> "none", run |-> NoRun]
    ELSE IF auto
    THEN With(exec_script_in_current_scene(gen.code), LAMBDA r :
         [msgs |-> Append(msgs, Executed(AiTurn(gen.code, gen.calls), r)),
          report |-> IF r.err = "" THEN "INFO" ELSE "WARNING", path |-> "auto", run |-> r])
    ELSE [msgs |-> Append(msgs, AiTurn(gen.code, gen.calls)), report |-> "INFO",
          path |-> "none", run |-> NoRun]

\* Nothing is sent: the handler is an operator or a timer without a result
NoFrames == [direct |-> << >>, broadcast |-> << >>]

\* handle_client: `await websocket.send(json.dumps(response))` for the
\* response of handle_message, or for the error of one of its except clauses
Respond(response) == [direct |-> << response >>, broadcast |-> << >>]

\* The value add_message returns, by its 'type'
AddMessageResult(gen) ==
    IF gen.kind = "error" THEN "error"
    ELSE IF gen.kind = "raise" THEN "message_response"
    ELSE "new_message"

\* A run_and_broadcast that keeps quiet about errors
run_and_broadcast_ok_only(result) ==
    [direct |-> << >>, broadcast |-> IF result = "new_message" THEN << result >> ELSE << >>]

\* run_and_broadcast: broadcast_to_clients(result) is scheduled on the server
\* loop when add_message returned a result
run_and_broadcast(result) ==
    [direct |-> << >>, broadcast |-> IF result # "" THEN << result >> ELSE << >>]

\* The values of the variables a specification does not use
NotSearched  == [searched |-> FALSE, list |-> << >>]
NotGenerated == [kind |-> "not_run", via |-> "none",
                 code    |-> [none |-> TRUE, text |-> << >>],
                 message |-> [none |-> TRUE, text |-> << >>],
                 error   |-> [none |-> TRUE, text |-> << >>]]
NotImported  == [via |-> "none", format |-> "", operator |-> "", err |-> "", reported |-> "",
                 objects |-> 0]
NoReply      == [outcome |-> "none", status |-> "", body |-> "none", content |-> << >>,
                 text |-> << >>]
NoEnv        == [has_requests |-> TRUE, api_key |-> "", provider |-> "OPENAI"]

GatewayIdle ==
    /\ env = NoEnv
    /\ reply = NoReply
    /\ matches = NotSearched
    /\ generated = NotGenerated
    /\ imported = NotImported

NoConfig     == [exists |-> FALSE, lines |-> << >>]
NoProps      == [openai_api_key |-> "", model_name |-> "rendermind-v1", temperature |-> "0.7"]
NotResolved  == [op |-> "none", api_key |-> "", model |-> "", display_model |-> "",
                 temperature |-> ""]
NoServer     == [available |-> TRUE, serve |-> "ok", server_running |-> FALSE,
                 threads |-> << >>, server_instance |-> 0, http_server |-> "none",
                 start |-> "none"]
NotDelivered == [op |-> "none", to |-> << >>, raised |-> FALSE, got |-> {}, message |-> ""]

HostUnused ==
    /\ config = NoConfig
    /\ props = NoProps
    /\ settings = NotResolved
    /\ server = NoServer
    /\ connected_clients = << >>
    /\ delivered = NotDelivered

GatewayUnused ==
    /\ query = << >>
    /\ assets = << >>
    /\ env = NoEnv
    /\ reply = NoReply
    /\ matches = NotSearched
    /\ generated = NotGenerated
    /\ imported = NotImported

Init ==
    /\ script = << >>
    /\ keyboard = "imports"
    /\ verdict = NoVerdict
    /\ chat_messages = << >>
    /\ chat_input = ""
    /\ is_thinking = FALSE
    /\ auto_execute = TRUE
    /\ plan_text = << >>
    /\ history = << >>
    /\ tmp_scenes = 0
    /\ main = Idle
    /\ timers = << >>
    /\ last = Done("register", "main", "INFO", "none", << >>, NoRun)
    /\ wire = NoFrames
    /\ GatewayUnused
    /\ HostUnused

\* The user edits the input field
TypeInput ==
    /\ ~main.busy
    /\ \E text \in Inputs : chat_input' = text
    /\ UNCHANGED <<chat_messages, is_thinking, auto_execute, plan_text, history, tmp_scenes,
                   main, timers, last, wire, filterVars, gatewayVars, hostVars>>

\* The user flips the auto-execute setting
ToggleAutoExecute ==
    /\ ~main.busy
    /\ auto_execute' = ~auto_execute
    /\ UNCHANGED <<chat_messages, chat_input, is_thinking, plan_text, history, tmp_scenes,
                   main, timers, last, wire, filterVars, gatewayVars, hostVars>>

\* The plan text property is set
SetPlanText ==
    /\ ~main.busy
    /\ \E plan \in Plans : plan_text' = plan
    /\ UNCHANGED <<chat_messages, chat_input, is_thinking, auto_execute, history, tmp_scenes,
                   main, timers, last, wire, filterVars, gatewayVars, hostVars>>

\* RM_OT_SendMessage.execute with an empty input: nothing is sent
SendMessageEmpty ==
    /\ ~main.busy
    /\ Strip(chat_input) = ""
    /\ last' = Done("rm.send_message", "main", "WARNING", "none", << >>, NoRun)
    /\ wire' = NoFrames
    /\ UNCHANGED <<chat_messages, chat_input, is_thinking, auto_execute, plan_text, history,
                   tmp_scenes, main, timers, filterVars, gatewayVars, hostVars>>

\* RM_OT_SendMessage.execute up to the call of generate_blender_code, which
\* the main thread makes itself and waits in
SendMessageCall ==
    /\ ~main.busy
    /\ Strip(chat_input) # ""
    /\ Len(chat_messages) + 2 <= MaxTurns
    /\ chat_messages' = Append(chat_messages, UserTurn(Strip(chat_input)))
    /\ chat_input' = ""
    /\ is_thinking' = TRUE
    /\ \E route \in Routes :
          main' = [busy |-> TRUE, via |-> "operator", prompt |-> Strip(chat_input),
                   route |-> route]
    /\ UNCHANGED <<auto_execute, plan_text, history, tmp_scenes, timers, last, wire,
                   filterVars, gatewayVars, hostVars>>

\* RM_OT_SendMessage.execute from the return of generate_blender_code on
SendMessageReturn ==
    /\ main.busy /\ main.via = "operator"
    /\ \E gen \in GenerateOutcomes(main.route) :
          \E r \in {SendReply(chat_messages, gen, auto_execute)} :
          /\ chat_messages' = r.msgs
          /\ last' = Done("rm.send_message", "main", r.report, r.path, gen.code, r.run)
    /\ wire' = NoFrames
    /\ is_thinking' = FALSE
    /\ main' = Idle
    /\ UNCHANGED <<chat_input, auto_execute, plan_text, history, tmp_scenes, timers,
                   filterVars, gatewayVars, hostVars>>

\* RM_OT_ClearChat.execute
ClearChat ==
    /\ ~main.busy
    /\ chat_messages' = << >>
    /\ last' = Done("rm.clear_chat", "main", "INFO", "none", << >>, NoRun)
    /\ wire' = NoFrames
    /\ UNCHANGED <<chat_input, is_thinking, auto_execute, plan_text, history, tmp_scenes,
                   main, timers, filterVars, gatewayVars, hostVars>>

\* RM_OT_RunMessageCode.execute for message_index
RunMessageCode ==
    /\ ~main.busy
    /\ \E message_index \in 0..MaxTurns :
          IF message_index >= Len(chat_messages)
          THEN /\ last' = Done("rm.run_message_code", "main", "ERROR", "none", << >>, NoRun)
               /\ UNCHANGED chat_messages
          ELSE LET msg == chat_messages[message_index + 1] IN
               IF msg.code = << >>
               THEN /\ last' = Done("rm.run_message_code", "main", "WARNING", "none", << >>, NoRun)
                    /\ UNCHANGED chat_messages
               ELSE \E r \in {validate_then_exec(msg.code, OperatorsGlobals)} :
                    /\ chat_messages' =
                          [chat_messages EXCEPT ![message_index + 1] = Executed(msg, r)]
                    /\ last' = Done("rm.run_message_code", "main",
                                    IF r.err = "" THEN "INFO" ELSE "ERROR", "run", msg.code, r)
    /\ wire' = NoFrames
    /\ UNCHANGED <<chat_input, is_thinking, auto_execute, plan_text, history, tmp_scenes,
                   main, timers, filterVars, gatewayVars, hostVars>>

(***************************************************************************)
(* blender_addon/operators.py: the plan operators                          *)
(***************************************************************************)

\* RM_OT_Generate.execute up to the call of generate_blender_code that
\* plan_from_prompt makes
GenerateCall ==
    /\ ~main.busy
    /\ \E route \in Routes :
          main' = [busy |-> TRUE, via |-> "generate", prompt |-> "Create a vase", route |-> route]
    /\ UNCHANGED <<chat_messages, chat_input, is_thinking, auto_execute, plan_text, history,
                   tmp_scenes, timers, last, wire, filterVars, gatewayVars, hostVars>>

\* The number of values generate_blender_code returns, and the number
\* plan_from_prompt unpacks them into
ReturnedValues == 3
UnpackedValues == 2

\* RM_OT_Generate.execute from the return of generate_blender_code on:
\* `code, error = generate_blender_code(...)` raises ValueError, which the
\* outer except reports; no plan, history item, variant or scene is made
GenerateReturn ==
    /\ main.busy /\ main.via = "generate"
    /\ \E gen \in GenerateOutcomes(main.route) :
          /\ ReturnedValues # UnpackedValues \/ gen.kind = "raise"
          /\ last' = Done("rm.generate_plan", "main", "ERROR", "none", << >>, NoRun)
          /\ wire' = NoFrames
    /\ main' = Idle
    /\ UNCHANGED <<chat_messages, chat_input, is_thinking, auto_execute, plan_text, history,
                   tmp_scenes, timers, filterVars, gatewayVars, hostVars>>

\* RM_OT_Preview.execute: the temporary scenes left behind, given the run of
\* the emitted script and whether bpy.ops.render.render returned.  The removal
\* is the last statement of the try block, which an exception skips.
PreviewLeak(run, render_ok) == IF run.err = "" /\ render_ok THEN 0 ELSE 1

\* RM_OT_Preview.execute
Preview ==
    /\ ~main.busy
    /\ \E render_ok \in BOOLEAN :
          \E src \in {emitter_plan_to_script(plan_text)} :
          \E r \in {validate_then_exec(src, OperatorsGlobals)} :
              /\ tmp_scenes + PreviewLeak(r, render_ok) <= MaxTmpScenes
              /\ tmp_scenes' = tmp_scenes + PreviewLeak(r, render_ok)
              /\ last' = Done("rm.preview_plan", "main",
                              IF r.err = "" /\ render_ok THEN "INFO" ELSE "ERROR",
                              IF r.ran THEN "preview" ELSE "none", src, r)
    /\ wire' = NoFrames
    /\ UNCHANGED <<chat_messages, chat_input, is_thinking, auto_execute, plan_text, history,
                   main, timers, filterVars, gatewayVars, hostVars>>

\* RM_OT_Apply.execute
Apply ==
    /\ ~main.busy
    /\ \E src \in {emitter_plan_to_script(plan_text)} :
       \E r \in {validate_then_exec(src, OperatorsGlobals)} :
           /\ history' = IF r.err = "" /\ Len(history) > 0
                         THEN [history EXCEPT ![Len(history)].accepted = TRUE]
                         ELSE history
           /\ last' = Done("rm.apply_plan", "main", IF r.err = "" THEN "INFO" ELSE "ERROR",
                           IF r.ran THEN "apply" ELSE "none", src, r)
    /\ wire' = NoFrames
    /\ UNCHANGED <<chat_messages, chat_input, is_thinking, auto_execute, plan_text,
                   tmp_scenes, main, timers, filterVars, gatewayVars, hostVars>>

(***************************************************************************)
(* websocket_server.py: handle_message runs on the server thread's event   *)
(* loop; the callbacks it registers run on the main thread                 *)
(***************************************************************************)

\* handle_message, type send_message: the work is deferred to a timer
WsSendMessage ==
    /\ Len(timers) < MaxTimers
    /\ \E content \in WsContents :
          timers' = Append(timers, [kind |-> "send", content |-> content])
    /\ last' = Done("ws.send_message", "worker", "message_received", "none", << >>, NoRun)
    /\ wire' = Respond("message_received")
    /\ UNCHANGED <<chat_messages, chat_input, is_thinking, auto_execute, plan_text, history,
                   tmp_scenes, main, filterVars, gatewayVars, hostVars>>

\* The contents of a send_message without an instruction: '' (also the value
\* of a message without content) and white space
WsEmptyContents == {"", " "}

\* handle_message, type send_message, for a content without an instruction:
\* the content is neither stripped nor tested, and the same timer is registered
WsSendEmptyMessage ==
    /\ Len(timers) < MaxTimers
    /\ \E content \in WsEmptyContents :
          timers' = Append(timers, [kind |-> "send", content |-> content])
    /\ last' = Done("ws.send_message", "worker", "message_received", "none", << >>, NoRun)
    /\ wire' = Respond("message_received")
    /\ UNCHANGED <<chat_messages, chat_input, is_thinking, auto_execute, plan_text, history,
                   tmp_scenes, main, filterVars, gatewayVars, hostVars>>

\* handle_message, type clear_chat: the clearing is deferred to a timer
WsClearChat ==
    /\ Len(timers) < MaxTimers
    /\ timers' = Append(timers, [kind |-> "clear", content |-> ""])
    /\ last' = Done("ws.clear_chat", "worker", "chat_cleared", "none", << >>, NoRun)
    /\ wire' = Respond("chat_cleared")
    /\ UNCHANGED <<chat_messages, chat_input, is_thinking, auto_execute, plan_text, history,
                   tmp_scenes, main, filterVars, gatewayVars, hostVars>>

\* handle_message, type get_messages: the log is read where the handler runs
WsGetMessages ==
    /\ last' = Done("ws.get_messages", "worker", "messages_list", "none", << >>, NoRun)
    /\ wire' = Respond("messages_list")
    /\ UNCHANGED <<chat_messages, chat_input, is_thinking, auto_execute, plan_text, history,
                   tmp_scenes, main, timers, filterVars, gatewayVars, hostVars>>

\* The thread that execute() of handle_message runs on: it is called directly
WsExecuteContext == "worker"

\* handle_message, type execute_code
WsExecuteCode ==
    /\ \E code \in WsScripts :
          \E r \in {validate_then_exec(code, ServerGlobals)} :
          last' = Done("ws.execute_code", WsExecuteContext, "execution_result",
                       IF r.ran THEN "ws_execute" ELSE "none", code, r)
    /\ wire' = Respond("execution_result")
    /\ UNCHANGED <<chat_messages, chat_input, is_thinking, auto_execute, plan_text, history,
                   tmp_scenes, main, timers, filterVars, gatewayVars, hostVars>>

\* handle_message, type ping
WsPing ==
    /\ last' = Done("ws.ping", "worker", "pong", "none", << >>, NoRun)
    /\ wire' = Respond("pong")
    /\ UNCHANGED <<chat_messages, chat_input, is_thinking, auto_execute, plan_text, history,
                   tmp_scenes, main, timers, filterVars, gatewayVars, hostVars>>

\* The type of the response to transcribe_audio: the text, the error of
\* transcribe_audio, or the text of an exception
TranscriptionResponse(outcome) ==
    CASE outcome = "text"  -> "transcription"
      [] outcome = "error" -> "transcription"
      [] OTHER             -> "transcription"

\* handle_message, type transcribe_audio
WsTranscribeAudio ==
    /\ \E outcome \in {"text", "error", "raise"} :
          /\ last' = Done("ws.transcribe_audio", "worker", outcome, "none", << >>, NoRun)
          /\ wire' = Respond(TranscriptionResponse(outcome))
    /\ UNCHANGED <<chat_messages, chat_input, is_thinking, auto_execute, plan_text, history,
                   tmp_scenes, main, timers, filterVars, gatewayVars, hostVars>>

\* handle_message, a type that is none of the six
WsUnknownType ==
    /\ last' = Done("ws.unknown", "worker", "Unknown message type", "none", << >>, NoRun)
    /\ wire' = Respond("error")
    /\ UNCHANGED <<chat_messages, chat_input, is_thinking, auto_execute, plan_text, history,
                   tmp_scenes, main, timers, filterVars, gatewayVars, hostVars>>

\* handle_client on a text that json.loads refuses (JSONDecodeError), and on
\* a JSON value that is no object (data.get raises AttributeError)
WsInvalidJson ==
    /\ \E raised \in {"Invalid JSON", "'list' object has no attribute 'get'"} :
          last' = Done("ws.invalid", "worker", raised, "none", << >>, NoRun)
    /\ wire' = Respond("error")
    /\ UNCHANGED <<chat_messages, chat_input, is_thinking, auto_execute, plan_text, history,
                   tmp_scenes, main, timers, filterVars, gatewayVars, hostVars>>

\* The timer of clear_chat fires on the main thread
TimerClear ==
    /\ ~main.busy
    /\ timers # << >> /\ Head(timers).kind = "clear"
    /\ timers' = Tail(timers)
    /\ chat_messages' = << >>
    /\ last' = Done("timer.clear", "main", "none", "none", << >>, NoRun)
    /\ wire' = NoFrames
    /\ UNCHANGED <<chat_input, is_thinking, auto_execute, plan_text, history, tmp_scenes,
                   main, filterVars, gatewayVars, hostVars>>

\* The timer of send_message fires on the main thread: add_message up to the
\* call of generate_blender_code
TimerSendCall ==
    /\ ~main.busy
    /\ timers # << >> /\ Head(timers).kind = "send"
    /\ Len(chat_messages) + 2 <= MaxTurns
    /\ timers' = Tail(timers)
    /\ chat_messages' = Append(chat_messages, UserTurn(Head(timers).content))
    /\ is_thinking' = TRUE
    /\ \E route \in Routes :
          main' = [busy |-> TRUE, via |-> "timer", prompt |-> Head(timers).content,
                   route |-> route]
    /\ UNCHANGED <<chat_input, auto_execute, plan_text, history, tmp_scenes, last, wire,
                   filterVars, gatewayVars, hostVars>>

\* add_message from the return of generate_blender_code on
TimerSendReturn ==
    /\ main.busy /\ main.via = "timer"
    /\ \E gen \in GenerateOutcomes(main.route) :
          \E r \in {SendReply(chat_messages, gen, auto_execute)} :
          /\ chat_messages' = r.msgs
          /\ last' = Done("timer.send_message", "main", r.report, r.path, gen.code, r.run)
          /\ wire' = run_and_broadcast(AddMessageResult(gen))
    /\ is_thinking' = FALSE
    /\ main' = Idle
    /\ UNCHANGED <<chat_input, auto_execute, plan_text, history, tmp_scenes, timers,
                   filterVars, gatewayVars, hostVars>>

\* The chat operators and the transport
Next ==
    \/ TypeInput
    \/ ToggleAutoExecute
    \/ SendMessageEmpty
    \/ SendMessageCall
    \/ SendMessageReturn
    \/ ClearChat
    \/ RunMessageCode
    \/ WsSendMessage
    \/ WsClearChat
    \/ WsGetMessages
    \/ WsExecuteCode
    \/ TimerClear
    \/ TimerSendCall
    \/ TimerSendReturn

Spec == Init /\ [][Next]_vars

\* The transport alone: every message a client can send, and the timers
TransportNext ==
    \/ ToggleAutoExecute
    \/ WsPing
    \/ WsTranscribeAudio
    \/ WsSendMessage
    \/ WsGetMessages
    \/ WsExecuteCode
    \/ WsClearChat
    \/ WsUnknownType
    \/ WsInvalidJson
    \/ TimerClear
    \/ TimerSendCall
    \/ TimerSendReturn

TransportSpec == Init /\ [][TransportNext]_vars

\* The sends alone, from the panel and from a client, with and without an
\* instruction
SendNext ==
    \/ TypeInput
    \/ SendMessageEmpty
    \/ SendMessageCall
    \/ SendMessageReturn
    \/ WsSendMessage
    \/ WsSendEmptyMessage
    \/ TimerSendCall
    \/ TimerSendReturn

SendSpec == Init /\ [][SendNext]_vars

\* The plan operators
PlanNext ==
    \/ SetPlanText
    \/ GenerateCall
    \/ GenerateReturn
    \/ Preview
    \/ Apply

PlanSpec == Init /\ [][PlanNext]_vars

\* The plan text is typed fragment by fragment, then applied
MaxPlanLen == 4
PlanAlphabet == {"sphere", "Sphere", "cylinder", "cube", " ", "r=", "0.3", "big", ",", ")"}

TypePlanToken ==
    /\ ~main.busy
    /\ Len(plan_text) < MaxPlanLen
    /\ \E t \in PlanAlphabet : plan_text' = Append(plan_text, t)
    /\ UNCHANGED <<chat_messages, chat_input, is_thinking, auto_execute, history, tmp_scenes,
                   main, timers, last, wire, filterVars, gatewayVars, hostVars>>

EmitNext == TypePlanToken \/ Apply
EmitSpec == Init /\ [][EmitNext]_vars

(***************************************************************************)
(* blender_addon/model_library.py                                          *)
(*                                                                         *)
(* A file name and a query are sequences of fragments whose concatenation  *)
(* is the text; the fragments are chosen so that one text is a substring   *)
(* of another exactly when its fragments are consecutive fragments of it.  *)
(***************************************************************************)

\* len() of a fragment, up to 4 (the code compares lengths with 2, 3 and 4)
Chars(f) ==
    IF f \in {"a", "_", "b"} THEN 1
    ELSE IF f \in {"an", "ox", "4k", "8k", "01", "02"} THEN 2
    ELSE IF f \in {"the", "add", "put", "red", "arm"} THEN 3
    ELSE 4

RECURSIVE StrLen(_)
StrLen(text) == IF text = << >> THEN 0 ELSE Chars(Head(text)) + StrLen(Tail(text))

\* str.lower()
StrLower(text) ==
    [i \in 1..Len(text) |->
        CASE text[i] = "Vase"   -> "vase"
          [] text[i] = "Chair"  -> "chair"
          [] text[i] = ".BLEND" -> ".blend"
          [] OTHER              -> text[i]]

\* sub in text
In(sub, text) == sub = << >> \/ Contains(text, sub)

\* text.replace(old, '')
RECURSIVE Replace(_, _)
Replace(text, old) ==
    IF text = << >> THEN << >>
    ELSE IF Len(old) <= Len(text) /\ SubSeq(text, 1, Len(old)) = old
    THEN With(SubSeq(text, Len(old) + 1, Len(text)), LAMBDA rest : Replace(rest, old))
    ELSE << Head(text) >> \o Replace(Tail(text), old)

\* text.strip()
RECURSIVE StrStrip(_)
StrStrip(text) ==
    IF text # << >> /\ IsWs(text[1])
    THEN With(Tail(text), LAMBDA rest : StrStrip(rest))
    ELSE IF text # << >> /\ IsWs(text[Len(text)])
    THEN With(SubSeq(text, 1, Len(text) - 1), LAMBDA rest : StrStrip(rest))
    ELSE text

\* text.split(): the runs of fragments between blanks
RECURSIVE SplitFrom(_, _, _)
SplitFrom(text, i, cur) ==
    IF i > Len(text) THEN (IF cur = << >> THEN << >> ELSE << cur >>)
    ELSE IF IsWs(text[i])
    THEN (IF cur = << >> THEN << >> ELSE << cur >>) \o SplitFrom(text, i + 1, << >>)
    ELSE SplitFrom(text, i + 1, Append(cur, text[i]))

Split(text) == SplitFrom(text, 1, << >>)

supported_formats == {".blend", ".fbx", ".obj", ".gltf", ".glb", ".stl"}

\* The words line 80 leaves out whatever their length
StopWords == { <<"add">>, <<"the">>, <<"create">>, <<"make">>, <<"place">>, <<"import">>,
               <<"put">> }

\* A filter that keeps every word of the query
meaningful_words_unfiltered(query_words) == query_words

\* meaningful_words of search_models
meaningful_words(query_words) ==
    SelectSeq(query_words, LAMBDA w : StrLen(w) >= 3 /\ w \notin StopWords)

\* clean_filename of search_models
clean_filename(file_stem) ==
    Replace(Replace(Replace(Replace(Replace(file_stem,
        <<"food", "_">>), <<"_", "01">>), <<"_", "02">>), <<"_", "4k">>), <<"_", "8k">>)

AnyWord(words, P(_)) == \E j \in 1..Len(words) : P(words[j])
AllWords(words, P(_)) == \A j \in 1..Len(words) : P(words[j])

\* The if/elif ladder of search_models for one file
ScoreOf(query_lower, query_words, file_stem) ==
    With(clean_filename(file_stem), LAMBDA clean :
    With(meaningful_words(query_words), LAMBDA meaningful :
        IF query_lower = file_stem \/ query_lower = clean THEN 100
        ELSE IF AnyWord(meaningful, LAMBDA word : word = clean) THEN 100
        ELSE IF AnyWord(meaningful, LAMBDA word : In(word, clean)) THEN 90
        ELSE IF In(query_lower, clean) THEN 85
        ELSE IF In(query_lower, file_stem) THEN 80
        ELSE IF Len(query_words) >= 2
                /\ AllWords(query_words, LAMBDA word : StrLen(word) > 2 => In(word, file_stem))
        THEN 70
        ELSE IF Len(query_words) = 1 /\ StrLen(query_lower) >= 4 /\ In(query_lower, file_stem)
        THEN 60
        ELSE 0))

\* The loop of search_models over the files os.walk yields, from file i on
RECURSIVE Scan(_, _, _, _)
Scan(query_lower, query_words, files, i) ==
    IF i > Len(files) THEN << >>
    ELSE With(files[i], LAMBDA file :
         With(ScoreOf(query_lower, query_words, StrLower(file.stem)), LAMBDA score :
            (IF StrLower(<< file.ext >>)[1] \in supported_formats /\ score > 0
             THEN << [path |-> << file.dir, file.stem, file.ext >>,
                      filename |-> << file.stem, file.ext >>,
                      category |-> file.dir,
                      score |-> score,
                      format |-> StrLower(<< file.ext >>)[1]] >>
             ELSE << >>)
            \o Scan(query_lower, query_words, files, i + 1)))

\* A sort by score that turns the order of equal scores around
RECURSIVE SortTiesReversed(_)
SortTiesReversed(list) ==
    IF list = << >> THEN << >>
    ELSE With(SortTiesReversed(Tail(list)), LAMBDA rest :
         With(Cardinality({j \in 1..Len(rest) : rest[j].score >= Head(list).score}), LAMBDA k :
            SubSeq(rest, 1, k) \o << Head(list) >> \o SubSeq(rest, k + 1, Len(rest))))

\* matches.sort(key=lambda x: x['score'], reverse=True): a stable sort, every
\* record is put behind the records before it that score at least as much
RECURSIVE SortByScore(_)
SortByScore(list) ==
    IF list = << >> THEN << >>
    ELSE With(SortByScore(SubSeq(list, 1, Len(list) - 1)), LAMBDA front :
         With(list[Len(list)], LAMBDA x :
         With(Cardinality({j \in 1..Len(front) : front[j].score >= x.score}), LAMBDA k :
            SubSeq(front, 1, k) \o << x >> \o SubSeq(front, k + 1, Len(front)))))

\* search_models(query) over the files of the assets directory
search_models(q, files) ==
    With(StrStrip(StrLower(q)), LAMBDA query_lower :
    With(Split(query_lower), LAMBDA query_words :
        SortByScore(Scan(query_lower, query_words, files, 1))))

(***************************************************************************)
(* model_library.py: import_model and the script of generate_import_code   *)
(***************************************************************************)

\* The importer the if/elif chain picks for a suffix, "" when no branch is
\* taken
ImportOperator(file_ext) ==
    CASE file_ext = ".blend" -> "bpy.data.libraries.load"
      [] file_ext = ".fbx"   -> "bpy.ops.import_scene.fbx"
      [] file_ext = ".obj"   -> "bpy.ops.import_scene.obj"
      [] file_ext \in {".gltf", ".glb"} -> "bpy.ops.import_scene.gltf"
      [] file_ext = ".stl"   -> "bpy.ops.import_mesh.stl"
      [] OTHER               -> ""

\* Path(path).suffix.lower()
Suffix(file) == StrLower(<< file.ext >>)[1]

Imported(via, format, operator, err, reported, objects) ==
    [via |-> via, format |-> format, operator |-> operator, err |-> err,
     reported |-> reported, objects |-> objects]

\* generate_import_code(model_info, user_prompt): the script text
generate_import_code(model_info) == ImportScript

\* rendermind_action of the script generate_import_code builds for a record
\* of the file, on a host whose importer raises or imports one object
RunImportCode(file, host) ==
    With(Suffix(file), LAMBDA file_ext :
        IF ImportOperator(file_ext) # "" /\ host = "raise"
        THEN Imported("script", file_ext, ImportOperator(file_ext), "raise",
                      "Import failed", 0)
        ELSE Imported("script", file_ext, ImportOperator(file_ext), "",
                      "Successfully imported",
                      IF ImportOperator(file_ext) # "" THEN 1 ELSE 0))

\* import_model(filepath): (success, message, imported_objects)
import_model(file, exists, host) ==
    With(Suffix(file), LAMBDA file_ext :
        IF ~exists
        THEN Imported("import_model", file_ext, "", "File not found", "", 0)
        ELSE IF ImportOperator(file_ext) = ""
        THEN Imported("import_model", file_ext, "", "Unsupported format", "", 0)
        ELSE IF host = "raise"
        THEN Imported("import_model", file_ext, ImportOperator(file_ext),
                      "Import failed", "", 0)
        ELSE Imported("import_model", file_ext, ImportOperator(file_ext), "",
                      "Imported 1 object(s)", 1))

(***************************************************************************)
(* model_interface.py: call_openai_api and generate_blender_code           *)
(***************************************************************************)

\* A Python value that is None or a str (a text, as a sequence of fragments)
None == [none |-> TRUE, text |-> << >>]
Str(text) == [none |-> FALSE, text |-> text]

\* bool(value): None and '' are false
Truthy(value) == ~value.none /\ value.text # << >>

\* What requests.post and the statements after it do: raise (text is str(e)),
\* or answer with a status and a body.  A body is empty, the JSON null, a JSON
\* object without 'choices', or a completion whose content is null or a text.
Reply(outcome, status, body, content, text) ==
    [outcome |-> outcome, status |-> status, body |-> body, content |-> content,
     text |-> text]

\* str(e) of the exception the statements of the try block raise on a body
\* that is not a completion
ExtractionError(body) ==
    IF body = "empty" THEN << "Expecting value: line 1 column 1 (char 0)" >>
    ELSE IF body = "null" THEN << "'NoneType' object is not subscriptable" >>
    ELSE << "'choices'" >>

\* A call_openai_api that takes every answer for a completion
call_openai_api_any_status(environment, answer) ==
    IF answer.outcome = "response" /\ answer.body \in {"content", "content_null"}
    THEN [content |-> IF answer.body = "content" THEN Str(answer.content) ELSE None,
          error |-> None]
    ELSE [content |-> Str(<< >>), error |-> None]

\* call_openai_api: (content, error)
call_openai_api(environment, answer) ==
    IF ~environment.has_requests
    THEN [content |-> None, error |-> Str(<< "Requests library not installed" >>)]
    ELSE IF environment.api_key = ""
    THEN [content |-> None,
          error |-> Str(<< "RenderMind API key not set. Please add it in the settings." >>)]
    ELSE IF answer.outcome = "exception"
    THEN [content |-> None, error |-> Str(answer.text)]
    ELSE IF answer.status = "200"
    THEN IF answer.body = "content" THEN [content |-> Str(answer.content), error |-> None]
         ELSE IF answer.body = "content_null" THEN [content |-> None, error |-> None]
         ELSE [content |-> None, error |-> Str(ExtractionError(answer.body))]
    ELSE [content |-> None,
          error |-> Str(<< "API Error ", answer.status, ": " >> \o answer.text)]

\* The fence of a code block (three backquotes), and the fence tagged python
Fence       == << "<fence>" >>
FencePython == << "<fence>", "python" >>

\* text.split(sep): the pieces between the occurrences of sep, left to right
RECURSIVE SplitOnFrom(_, _, _, _)
SplitOnFrom(text, sep, i, cur) ==
    IF i > Len(text) THEN << cur >>
    ELSE IF i + Len(sep) - 1 <= Len(text) /\ SubSeq(text, i, i + Len(sep) - 1) = sep
    THEN << cur >> \o SplitOnFrom(text, sep, i + Len(sep), << >>)
    ELSE SplitOnFrom(text, sep, i + 1, Append(cur, text[i]))

SplitOn(text, sep) == SplitOnFrom(text, sep, 1, << >>)

FallbackMessage == << "I've generated the code for you!" >>
AssetMessage    == << "I'll create that for you! Here's the code:" >>

\* A split that takes the block of the first fence, tagged or not
SplitFirstFence(full_response) ==
    IF Contains(full_response, Fence)
    THEN With(SplitOn(full_response, Fence), LAMBDA pieces :
         With(StrStrip(pieces[1]), LAMBDA ai_message :
            [code |-> StrStrip(IF pieces[2] # << >> /\ pieces[2][1] = "python"
                               THEN Tail(pieces[2]) ELSE pieces[2]),
             message |-> IF ai_message = << >> THEN FallbackMessage ELSE ai_message]))
    ELSE [code |-> full_response, message |-> FallbackMessage]

\* A split that keeps the whole response as the message when there is no fence
SplitKeepsMessage(full_response) ==
    IF Contains(full_response, Fence)
    THEN SplitFirstFence(full_response)
    ELSE [code |-> full_response, message |-> full_response]

\* generate_blender_code, lines 224-238: the code and the message taken from
\* the text of the completion
SplitResponse(full_response) ==
    With(IF Contains(full_response, FencePython)
         THEN [code    |-> StrStrip(SplitOn(SplitOn(full_response, FencePython)[2], Fence)[1]),
               message |-> StrStrip(SplitOn(full_response, FencePython)[1])]
         ELSE IF Contains(full_response, Fence)
         THEN [code    |-> StrStrip(SplitOn(SplitOn(full_response, Fence)[2], Fence)[1]),
               message |-> StrStrip(SplitOn(full_response, Fence)[1])]
         ELSE [code |-> full_response, message |-> full_response],
         LAMBDA s :
            [code |-> s.code,
             message |-> IF s.message = << >> \/ s.message = full_response
                         THEN FallbackMessage ELSE s.message])

Generated(kind, via, code, message, error) ==
    [kind |-> kind, via |-> via, code |-> code, message |-> message, error |-> error]

\* generate_demo_code(prompt)
generate_demo_code(prompt) == ScriptGood

\* The score from which a library model replaces the backend
AssetThreshold == 60

\* A generate_blender_code that takes a library model only from score 80
UseAssetFrom80(model_matches) ==
    model_matches # << >> /\ model_matches[1].score >= 80

\* generate_blender_code, line 167
UseAsset(model_matches) ==
    model_matches # << >> /\ model_matches[1].score >= AssetThreshold

\* generate_blender_code(prompt) with the list search_models returned, the
\* settings and the backend's answer: (code, ai_message, error), or the
\* exception that leaves the function
generate_blender_code(prompt, model_matches, environment, answer) ==
    IF UseAsset(model_matches)
    THEN Generated("ok", "asset", Str(generate_import_code(model_matches[1])),
                   Str(AssetMessage), None)
    ELSE IF environment.provider = "OPENAI"
    THEN With(call_openai_api(environment, answer), LAMBDA r :
         IF Truthy(r.error) THEN Generated("error", "backend", None, None, r.error)
         ELSE IF r.content.none
         THEN Generated("raise", "backend", None, None,
                        Str(<< "argument of type 'NoneType' is not iterable" >>))
         ELSE With(SplitResponse(r.content.text), LAMBDA s :
              Generated("ok", "backend", Str(s.code), Str(s.message), None)))
    ELSE IF environment.provider = "OLLAMA"
    THEN Generated("error", "ollama", None, None, Str(<< "Ollama support coming soon!" >>))
    ELSE Generated("ok", "demo", Str(generate_demo_code(prompt)),
                   Str(<< "Here's a simple example:" >>), None)

(***************************************************************************)
(* GatewaySpec: search_models and generate_blender_code on a library and    *)
(* a query, with every setting and every answer of the backend              *)
(***************************************************************************)

File(dir, stem, ext) == [dir |-> dir, stem |-> stem, ext |-> ext]

Chair4k   == File("furniture", << "chair", "_", "4k" >>, ".obj")
Vase01    == File("root", << "Vase", "_", "01" >>, ".BLEND")
Armchair  == File("furniture", << "arm", "chair" >>, ".fbx")
Theater   == File("root", << "the", "ater" >>, ".glb")
NiceTable == File("furniture", << "nice", "_", "table" >>, ".stl")
ChairTxt  == File("root", << "chair" >>, ".txt")
RedChair  == File("furniture", << "red", "_", "chair" >>, ".obj")
ChairDae  == File("root", << "chair" >>, ".dae")

\* The assets directory in os.walk order; << >> is also a missing directory
Libraries ==
    { << >>,
      << Armchair, NiceTable, RedChair, ChairTxt, Chair4k, Vase01, Theater >>,
      << RedChair, Armchair, Chair4k >>,
      << Chair4k, Armchair, RedChair >>,
      << ChairDae, ChairTxt >>,
      << Theater, Vase01, NiceTable >> }

Queries ==
    { << "a", " ", "nice", " ", "red", " ", "chair" >>,
      << " ", "Vase" >>,
      << "the", " ", "chair" >>,
      << "an", " ", "ox" >>,
      << "4k" >>,
      << >>,
      << "chair" >>,
      << "add", " ", "a", " ", "vase" >>,
      << "table" >>,
      << "dragon" >> }

Environments ==
    [has_requests : BOOLEAN, api_key : {"", "sk-key"}, provider : {"OPENAI", "OLLAMA", "LOCAL"}]

ReplyTagged == << "Sure!", "\n", "<fence>", "python", "\n", DefOk, "\n", "<fence>" >>
ReplyMixed  == << "Run", " ", "<fence>", "\n", DefOk, "\n", "<fence>", " ", "or", " ",
                  "<fence>", "python", "\n", DefRaise, "\n", "<fence>" >>

Replies ==
    { Reply("exception", "", "none", << >>,
            << "HTTPSConnectionPool(host='api.openai.com', port=443): Read timed out. (read timeout=30)" >>),
      Reply("exception", "", "none", << >>,
            << "HTTPSConnectionPool(host='api.openai.com', port=443): Max retries exceeded" >>),
      Reply("response", "401", "text", << >>, << "Unauthorized" >>),
      Reply("response", "500", "text", << >>, << "Internal", " ", "Server", " ", "Error" >>),
      Reply("response", "204", "empty", << >>, << >>),
      Reply("response", "200", "empty", << >>, << >>),
      Reply("response", "200", "null", << >>, << "null" >>),
      Reply("response", "200", "no_choices", << >>, << "{}" >>),
      Reply("response", "200", "content_null", << >>, << >>),
      Reply("response", "200", "content", << >>, << >>),
      Reply("response", "200", "content", ScriptGood, << >>),
      Reply("response", "200", "content", ReplyTagged, << >>),
      Reply("response", "200", "content", ReplyMixed, << >>) }

Installed ==
    /\ script = << >>
    /\ keyboard = "imports"
    /\ verdict = NoVerdict
    /\ chat_messages = << >>
    /\ chat_input = ""
    /\ is_thinking = FALSE
    /\ auto_execute = TRUE
    /\ plan_text = << >>
    /\ history = << >>
    /\ tmp_scenes = 0
    /\ main = Idle
    /\ timers = << >>
    /\ last = Done("register", "main", "INFO", "none", << >>, NoRun)
    /\ wire = NoFrames

\* The settings, and the answer the backend gives when it is asked, are fixed
\* from the start
GatewayInit ==
    /\ Installed
    /\ HostUnused
    /\ query \in Queries
    /\ assets \in Libraries
    /\ env \in Environments
    /\ reply \in Replies
    /\ matches = NotSearched
    /\ generated = NotGenerated
    /\ imported = NotImported

\* search_models(query) on the assets directory
SearchModels ==
    /\ \E list \in {search_models(query, assets)} :
          matches' = [searched |-> TRUE, list |-> list]
    /\ UNCHANGED <<filterVars, mainVars, hostVars, query, assets, env, reply, generated, imported>>

\* generate_blender_code(query)
GenerateBlenderCode ==
    /\ \E list \in {search_models(query, assets)} :
        /\ matches' = [searched |-> TRUE, list |-> list]
        /\ generated' = generate_blender_code(query, list, env, reply)
    /\ UNCHANGED <<filterVars, mainVars, hostVars, query, assets, env, reply, imported>>

GatewayNext == SearchModels \/ GenerateBlenderCode

GatewaySpec == GatewayInit /\ [][GatewayNext]_vars

(***************************************************************************)
(* ResponseSpec: generate_blender_code on every completion text of up to   *)
(* MaxReplyLen fragments, the library holding no match                     *)
(***************************************************************************)

MaxReplyLen == 6

ReplyAlphabet == {"<fence>", "python", "\n", "Sure!", DefOk}

ResponseInit ==
    /\ Installed
    /\ HostUnused
    /\ query = << "dragon" >>
    /\ assets = << >>
    /\ env = [has_requests |-> TRUE, api_key |-> "sk-key", provider |-> "OPENAI"]
    /\ reply = Reply("response", "200", "content", << >>, << >>)
    /\ matches = NotSearched
    /\ generated = NotGenerated
    /\ imported = NotImported

\* The backend writes one more fragment of its completion
BackendWrites ==
    /\ Len(reply.content) < MaxReplyLen
    /\ \E t \in ReplyAlphabet : reply' = [reply EXCEPT !.content = Append(@, t)]
    /\ generated' = NotGenerated
    /\ matches' = NotSearched
    /\ UNCHANGED <<filterVars, mainVars, hostVars, query, assets, env, imported>>

\* generate_blender_code(query) receives the completion
GenerateFromReply ==
    /\ \E list \in {search_models(query, assets)} :
        /\ matches' = [searched |-> TRUE, list |-> list]
        /\ generated' = generate_blender_code(query, list, env, reply)
    /\ UNCHANGED <<filterVars, mainVars, hostVars, query, assets, env, reply, imported>>

ResponseNext == BackendWrites \/ GenerateFromReply

ResponseSpec == ResponseInit /\ [][ResponseNext]_vars

(***************************************************************************)
(* ImportSpec: the import of a file of the library, by import_model and by *)
(* the script generate_import_code builds                                   *)
(***************************************************************************)

ImportHosts == {"ok", "raise"}

ImportInit ==
    /\ Installed
    /\ HostUnused
    /\ query \in Queries
    /\ assets \in Libraries
    /\ GatewayIdle

\* rendermind_action of the generated import script is run
RunImportScript ==
    /\ \E i \in 1..Len(assets), host \in ImportHosts :
          imported' = RunImportCode(assets[i], host)
    /\ UNCHANGED <<filterVars, mainVars, hostVars, query, assets, env, reply, matches, generated>>

\* import_model(filepath) is called
ImportModel ==
    /\ \E i \in 1..Len(assets), exists \in BOOLEAN, host \in ImportHosts :
          imported' = import_model(assets[i], exists, host)
    /\ UNCHANGED <<filterVars, mainVars, hostVars, query, assets, env, reply, matches, generated>>

ImportNext == RunImportScript \/ ImportModel

ImportSpec == ImportInit /\ [][ImportNext]_vars

(***************************************************************************)
(* FilterSpec: the Safety Filter applied to every script that can be typed *)
(* from one of two small alphabets.                                        *)
(***************************************************************************)

MaxImportLen  == 7
MaxPatternLen == 6

Alphabet(kb) ==
    IF kb = "imports" THEN {"from", "import", " ", "math", "pi"}
    ELSE {"open", "(", "with", " ", "EVAL"}

MaxLen(kb) == IF kb = "imports" THEN MaxImportLen ELSE MaxPatternLen

FilterInit ==
    /\ script = << >>
    /\ keyboard \in {"imports", "patterns"}
    /\ verdict = NoVerdict
    /\ chat_messages = << >>
    /\ chat_input = ""
    /\ is_thinking = FALSE
    /\ auto_execute = TRUE
    /\ plan_text = << >>
    /\ history = << >>
    /\ tmp_scenes = 0
    /\ main = Idle
    /\ timers = << >>
    /\ last = Done("register", "main", "INFO", "none", << >>, NoRun)
    /\ wire = NoFrames
    /\ GatewayUnused
    /\ HostUnused

\* The author of a script types one more token
TypeToken ==
    /\ Len(script) < MaxLen(keyboard)
    /\ \E t \in Alphabet(keyboard) : script' = Append(script, t)
    /\ verdict' = NoVerdict
    /\ UNCHANGED <<keyboard, mainVars, gatewayVars, hostVars>>

\* validate_code_safety(script) is called
Validate ==
    /\ verdict = NoVerdict
    /\ verdict' = validate_code_safety(script)
    /\ UNCHANGED <<script, keyboard, mainVars, gatewayVars, hostVars>>

FilterNext == TypeToken \/ Validate

FilterSpec == FilterInit /\ [][FilterNext]_vars

(***************************************************************************)
(* Claims about the Safety Filter (FilterSpec)                             *)
(***************************************************************************)

Validated == verdict # NoVerdict

\* Every place <<p, i>> where blocklisted pattern p matches the script at token i
Occurrences(code) ==
    {o \in (1..Len(DANGEROUS_PATTERNS)) \X (1..Len(code)) :
        MatchEnd(DANGEROUS_PATTERNS[o[1]], 1, code, o[2]) # 0}

OccurrenceText(code, o) ==
    SubSeq(code, o[2], MatchEnd(DANGEROUS_PATTERNS[o[1]], 1, code, o[2]))

\* How many entries of a list equal x
CountIn(items, x) == Cardinality({j \in 1..Len(items) : items[j] = x})

\* C2: a script with at least one match of a blocklisted pattern is reported
\* unsafe, and the reported violations list every match of every pattern: one
\* entry per occurrence, carrying the matched text
C2_AllMatchesReported ==
    (Validated /\ Occurrences(script) # {}) =>
        /\ ~verdict.is_safe
        /\ verdict.kind = "patterns"
        /\ Len(verdict.items) = Cardinality(Occurrences(script))
        /\ \A o \in Occurrences(script) :
              CountIn(verdict.items, OccurrenceText(script, o))
                = Cardinality({q \in Occurrences(script) :
                                 OccurrenceText(script, q) = OccurrenceText(script, o)})

\* C2 witness: a validated script with three matches, of two different patterns
C2_Witness ==
    /\ Validated
    /\ Cardinality(Occurrences(script)) >= 3
    /\ \E a, b \in Occurrences(script) : a[1] # b[1]
    /\ ~verdict.is_safe

\* The modules a script imports, by the meaning of its import statements:
\* M for `import M` and for `from M import name`
ImportedModules(code) ==
    LET ls == Lines(code)
        imports == {j \in 1..Len(ls) : LineForm(ls[j]).form \in {"import", "from_import"}}
        body(j) == LET lx == StripRight(Lex(ls[j], 1)) IN
                   IF lx[1].k = "ws" THEN SubSeq(lx, 2, Len(lx)) ELSE lx
    IN  {body(j)[3].run : j \in imports}

\* C3: a script that imports only allowlisted modules, contains no blocklisted
\* pattern and parses cleanly is reported safe, `from <allowed> import <name>`
\* included
C3_AllowlistedScriptIsSafe ==
    (/\ Validated
     /\ \A m \in ImportedModules(script) : ModuleAllowed(m)
     /\ Occurrences(script) = {}
     /\ ParsesCleanly(script)) => verdict.is_safe

(***************************************************************************)
(* Claims about the chat operators and the transport (Spec)                *)
(***************************************************************************)

Turns == 1..Len(chat_messages)

\* The last handler was a send (operator or timer callback) that has returned
SendDone == ~main.busy /\ last.op \in {"rm.send_message", "timer.send_message"}

\* C1: every script that is run was reported safe by the Safety Filter's
\* validate (blocklist, import allowlist, syntax check) beforehand
C1_SafetyFilterBeforeEveryRun ==
    last.run.ran => validate_code_safety(last.script).is_safe

\* C4: when the script of a sent message fails while it is run, the failure
\* stays inside the send: the assistant turn is the last of the log, has
\* status ERROR and the error recorded, the send reports a warning instead
\* of failing, the thinking flag is cleared, and the next send is accepted
C4_RunErrorIsContained ==
    (SendDone /\ last.path = "auto" /\ last.run.err # "") =>
        /\ chat_messages # << >>
        /\ LET t == chat_messages[Len(chat_messages)] IN
              /\ t.role = "AI"
              /\ t.code = last.script
              /\ t.status = "ERROR"
              /\ t.error_msg = last.run.err
        /\ last.report = "WARNING"
        /\ ~is_thinking
        /\ (Strip(chat_input) # "" /\ Len(chat_messages) + 2 <= MaxTurns)
              => ENABLED SendMessageCall

\* C4 witness: the entry point of a sent script raised, the turn is in error,
\* and the send after it has run its script with success
C4_Witness ==
    /\ SendDone /\ last.path = "auto" /\ last.run.err = ""
    /\ Len(chat_messages) = 4
    /\ chat_messages[2].status = "ERROR"
    /\ chat_messages[2].error_msg = "entry_raised"
    /\ chat_messages[4].status = "SUCCESS"

\* C5: a script is run, and state is changed, on the main thread only, never
\* on the event loop of the transport worker
C5_RunsOnlyOnMain ==
    last.run.ran => last.ctx = "main"

C8_StatusImpliesCode ==
    \A i \in Turns :
        /\ chat_messages[i].status \in {"SUCCESS", "ERROR"} => chat_messages[i].code # << >>
        /\ chat_messages[i].code = << >> => chat_messages[i].status = "NONE"

\* C8: a turn with status SUCCESS has code, and that code was run; a turn with
\* status ERROR either holds the script that was attempted (run, or refused by
\* validate_script) or is the report of a failed generation, which has no
\* code; a USER turn has status NONE and no code; and the turn a send has just
\* run holds the script that was run
C8_StatusMatchesAttempt ==
    /\ \A i \in Turns :
          LET t == chat_messages[i] IN
          /\ t.status = "SUCCESS" => (t.code # << >> /\ t.g_ran /\ t.error_msg = "")
          /\ t.status = "ERROR" =>
                \/ t.role = "AI" /\ t.error_msg # "backend"
                      /\ (t.g_ran \/ t.error_msg = "unsafe_token")
                \/ t.role = "AI" /\ t.error_msg = "backend" /\ t.code = << >> /\ ~t.g_ran
                \/ t.role = "SYSTEM" /\ t.code = << >> /\ ~t.g_ran
          /\ t.role = "USER" => (t.status = "NONE" /\ t.code = << >>)
    /\ (SendDone /\ last.path = "auto") =>
          /\ chat_messages # << >>
          /\ chat_messages[Len(chat_messages)].code = last.script
          /\ chat_messages[Len(chat_messages)].status \in {"SUCCESS", "ERROR"}

\* C8 witness: a log with a turn whose code ran with success and the report
\* of a backend error, which has status ERROR and no code
C8_Witness ==
    \E i, j \in Turns :
        /\ chat_messages[i].status = "SUCCESS" /\ chat_messages[i].code = ScriptGood
        /\ chat_messages[j].status = "ERROR" /\ chat_messages[j].error_msg = "backend"
        /\ chat_messages[j].code = << >>

\* C9: the main thread never waits inside a request to the generation backend
C9_MainNeverWaitsOnBackend ==
    ~(main.busy /\ main.route = "backend")

\* C10: when generate_blender_code returns an error, or validate_script
\* refuses the generated script, nothing of the script is run, the turn has
\* status ERROR, and the instruction cost at most one backend request
C10_ErrorsAreTerminal ==
    /\ \A i \in Turns :
          LET t == chat_messages[i] IN
          /\ t.g_calls <= 1
          /\ t.error_msg \in {"backend", "unsafe_token"} => (t.status = "ERROR" /\ ~t.g_ran)
          /\ ~validate_script(t.code) => ~t.g_ran
    /\ (SendDone /\ last.report = "ERROR") => (last.path = "none" /\ ~last.run.ran)
    /\ (SendDone /\ last.run.err = "unsafe_token") =>
          (~last.run.ran /\ ~last.run.called /\ ~last.run.mutated /\ ~last.run.harm)

\* C10 witness: a log with the turn of a backend error and the turn of a
\* generated script that validate_script refused, after two sends
C10_Witness ==
    /\ SendDone /\ last.run.err = "unsafe_token"
    /\ \E i, j \in Turns :
          /\ chat_messages[i].error_msg = "backend" /\ chat_messages[i].g_calls = 1
          /\ chat_messages[j].error_msg = "unsafe_token" /\ chat_messages[j].code = ScriptImportOs

(***************************************************************************)
(* Claims about the plan operators (PlanSpec)                              *)
(***************************************************************************)

\* C6: no preview leaves its temporary scene behind, whichever way it ends
C6_PreviewRemovesItsScene ==
    tmp_scenes = 0

\* The turns of the log before the step are the first turns after it, with
\* their role, content and code
KeepsTurns ==
    /\ Len(chat_messages') >= Len(chat_messages)
    /\ \A i \in 1..Len(chat_messages) :
          /\ chat_messages'[i].role = chat_messages[i].role
          /\ chat_messages'[i].content = chat_messages[i].content
          /\ chat_messages'[i].code = chat_messages[i].code

\* C23: the conversation log is append-only: whatever is sent, run or asked
\* over the transport, the turns it holds stay, in their order and with their
\* role and content; only a clear (the Clear Chat operator, or the timer of a
\* clear_chat request) changes that, and it empties the whole log.
C23_LogIsAppendOnly ==
    [][chat_messages' # chat_messages =>
          \/ KeepsTurns
          \/ /\ chat_messages' = << >>
             /\ last'.op \in {"rm.clear_chat", "timer.clear"}]_vars

C23_Witness ==
    /\ Len(chat_messages) = 4
    /\ last.op = "rm.run_message_code"
    /\ last.path = "run"
    /\ chat_messages[2].status = "SUCCESS"
    /\ chat_messages[4].status = "ERROR"

\* The last handler ran a script and reported the run as a success
ReportedSuccess ==
    \/ /\ last.op \in {"rm.send_message", "timer.send_message", "rm.run_message_code"}
       /\ last.path # "none"
       /\ last.report = "INFO"
    \/ /\ last.op = "ws.execute_code"
       /\ last.run.ran
       /\ last.run.err = ""

\* C25: a run is reported as a success (the turn gets status SUCCESS, the
\* execution_result says success) only when rendermind_action of the script
\* was called against the scene, and the run of a script that does not define
\* rendermind_action is reported as an error.
C25_SuccessOnlyAfterEntryPoint ==
    /\ ReportedSuccess => last.run.called
    /\ last.run.ran =>
          \A x \in {Exec(last.script, EmptyNamespace)} :
              (x.err = "" /\ x.entry = "none") => last.run.err # ""

HasForbiddenToken(src) ==
    \E k \in 1..Len(FORBIDDEN_TOKENS) : Contains(src, FORBIDDEN_TOKENS[k])

\* C26: no path (auto-execute, Run Code, the execute_code request) executes a
\* script that holds one of the FORBIDDEN_TOKENS: the handler that meets such
\* a script ends with the error of validate_script and exec is not reached,
\* and no turn of the log holds such a script that was run.
C26_ForbiddenTokenNeverRuns ==
    /\ HasForbiddenToken(last.script) =>
          /\ ~last.run.ran
          /\ ~last.run.harm
          /\ last.path # "none" => last.run.err = "unsafe_token"
    /\ \A i \in 1..Len(chat_messages) :
          chat_messages[i].g_ran => ~HasForbiddenToken(chat_messages[i].code)

C26_Witness ==
    /\ last.op = "ws.execute_code"
    /\ last.script = ScriptImportOs
    /\ last.run.err = "unsafe_token"
    /\ ~last.run.ran
    /\ \E i \in 1..Len(chat_messages) :
          /\ chat_messages[i].code = ScriptImportOs
          /\ chat_messages[i].status = "ERROR"

(***************************************************************************)
(* Claims about generate_blender_code (GatewaySpec)                        *)
(***************************************************************************)

AskedBackend == generated.via = "backend"

\* The failures of the backend: no HTTP library, no credential, an exception
\* of the request (the 30-second timeout among them), a status other than 200
BackendFails ==
    \/ ~env.has_requests
    \/ env.api_key = ""
    \/ reply.outcome = "exception"
    \/ reply.status # "200"

StatusError ==
    /\ env.has_requests
    /\ env.api_key # ""
    /\ reply.outcome = "response"
    /\ reply.status # "200"

\* C11: every failure of the backend (missing HTTP library, missing
\* credential, an exception of the request, a status other than 200) comes
\* back from generate_blender_code as a non-empty error with no code and no
\* message, never as a result with empty code; the error of a status other
\* than 200 holds the status code and the body text.
C11_BackendFailureIsAnError ==
    (AskedBackend /\ BackendFails) =>
        /\ generated.kind = "error"
        /\ generated.code = None
        /\ generated.message = None
        /\ Truthy(generated.error)
        /\ StatusError =>
              /\ Contains(generated.error.text, << reply.status >>)
              /\ In(reply.text, generated.error.text)

C11_Witness ==
    /\ AskedBackend
    /\ StatusError
    /\ reply.status = "500"
    /\ generated.kind = "error"
    /\ Contains(generated.error.text, << "500", ": ", "Internal" >>)

\* A completion with status 200 whose body is empty, the JSON null, an
\* object without choices, or whose content is null or the empty text
EmptyAnswer ==
    /\ env.has_requests
    /\ env.api_key # ""
    /\ reply.outcome = "response"
    /\ reply.status = "200"
    /\ \/ reply.body \in {"empty", "null", "no_choices", "content_null"}
       \/ reply.body = "content" /\ reply.content = << >>

\* C15: when the backend answers with status 200 and an empty or null body,
\* generate_blender_code does not raise: it returns code and message, or an
\* error.
C15_ExtractionNeverRaises ==
    (AskedBackend /\ EmptyAnswer) => generated.kind \in {"ok", "error"}

TopScore == IF matches.list = << >> THEN 0 ELSE matches.list[1].score

\* C16: generate_blender_code returns the import script of the library model
\* in place of asking the backend exactly when the search gives a non-empty
\* list whose first score is at least 60; otherwise it goes on to the
\* generation of the configured provider.
C16_AssetIffTopScoreAtLeast60 ==
    generated.kind # "not_run" =>
        /\ generated.via = "asset" <=> (matches.list # << >> /\ TopScore >= 60)
        /\ generated.via = "asset" =>
              /\ generated.kind = "ok"
              /\ generated.code = Str(ImportScript)
              /\ generated.message = Str(AssetMessage)
        /\ generated.via # "asset" =>
              generated.via = CASE env.provider = "OPENAI" -> "backend"
                                [] env.provider = "OLLAMA" -> "ollama"
                                [] OTHER -> "demo"

C16_Witness ==
    /\ generated.via = "asset"
    /\ TopScore = 70
    /\ env.provider = "OPENAI"
    /\ reply.outcome = "exception"

\* The place of a record's file in the traversal of the assets directory
DiscoveryIndex(record) ==
    CHOOSE i \in 1..Len(assets) :
        << assets[i].dir, assets[i].stem, assets[i].ext >> = record.path

DescendingStable(list) ==
    \A j, k \in 1..Len(list) :
        j < k =>
            /\ list[j].score >= list[k].score
            /\ list[j].score = list[k].score =>
                  DiscoveryIndex(list[j]) < DiscoveryIndex(list[k])

\* C17: for a fixed assets directory and query, search_models returns its
\* records with scores that never increase along the list, records of equal
\* score in the order the traversal found them, and a later call returns the
\* same list.
C17_SearchIsOrderedAndRepeatable ==
    /\ [](matches.searched => DescendingStable(matches.list))
    /\ [][matches.searched /\ matches'.searched => matches'.list = matches.list]_vars

C17_Witness ==
    /\ matches.searched
    /\ generated = NotGenerated
    /\ assets = << RedChair, Armchair, Chair4k >>
    /\ [j \in 1..Len(matches.list) |-> matches.list[j].score] = << 100, 90, 90 >>
    /\ matches.list[2].path = << "furniture", << "red", "_", "chair" >>, ".obj" >>
    /\ matches.list[3].path = << "furniture", << "arm", "chair" >>, ".fbx" >>

\* The lower-case words and text of the query, as search_models takes them
QueryLower == StrStrip(StrLower(query))
QueryWords == Split(QueryLower)

\* The rules of the ladder from the highest, for a file stem and the words
\* the 100 and 90 rules use
RuleValues == << 100, 90, 85, 80, 70, 60 >>

RuleMatches(n, words, file_stem) ==
    With(clean_filename(file_stem), LAMBDA clean :
        CASE n = 1 -> \/ QueryLower = file_stem
                      \/ QueryLower = clean
                      \/ \E j \in 1..Len(words) : words[j] = clean
          [] n = 2 -> \E j \in 1..Len(words) : In(words[j], clean)
          [] n = 3 -> In(QueryLower, clean)
          [] n = 4 -> In(QueryLower, file_stem)
          [] n = 5 -> /\ Len(QueryWords) >= 2
                      /\ \A j \in 1..Len(QueryWords) :
                            StrLen(QueryWords[j]) > 2 => In(QueryWords[j], file_stem)
          [] OTHER -> /\ Len(QueryWords) = 1
                      /\ StrLen(QueryLower) >= 4
                      /\ In(QueryLower, file_stem))

\* The value of the first rule that matches, 0 when none does
LadderScore(words, file_stem) ==
    IF \A n \in 1..6 : ~RuleMatches(n, words, file_stem) THEN 0
    ELSE RuleValues[CHOOSE n \in 1..6 :
                        /\ RuleMatches(n, words, file_stem)
                        /\ \A m \in 1..(n - 1) : ~RuleMatches(m, words, file_stem)]

\* The list holds exactly the supported files the ladder gives a score above
\* 0, each once and with that score
ListFollowsLadder(words) ==
    /\ \A i \in 1..Len(assets) :
          With(LadderScore(words, StrLower(assets[i].stem)), LAMBDA score :
          With({j \in 1..Len(matches.list) : DiscoveryIndex(matches.list[j]) = i},
               LAMBDA records :
              /\ Cardinality(records)
                    = IF Suffix(assets[i]) \in supported_formats /\ score > 0 THEN 1 ELSE 0
              /\ \A j \in records : matches.list[j].score = score))
    /\ Len(matches.list) <= Len(assets)

\* The words of the query with at least three characters that are not one of
\* add, the, create, make, place, import, put
WordsOfLength3(words) ==
    SelectSeq(words, LAMBDA w : StrLen(w) >= 3 /\ w \notin StopWords)

ExampleQuery == << "a", " ", "nice", " ", "red", " ", "chair" >>

ScoreOfFile(file) ==
    IF \E j \in 1..Len(matches.list) : matches.list[j].path = << file.dir, file.stem, file.ext >>
    THEN (CHOOSE r \in {matches.list[j] : j \in 1..Len(matches.list)} :
              r.path = << file.dir, file.stem, file.ext >>).score
    ELSE 0

\* C18 as stated: the score of every file is the value of the first rule of
\* the ladder 100, 90, 85, 80, 70, 60 that matches, files that match no rule
\* are not returned, and the words of the 100 and 90 rules leave out articles
\* and the verbs add, create, make, place, import, put, so that for the query
\* "a nice red chair" the words "a" and "nice" are discarded and chair_4k.obj
\* scores 100.
C18_NiceIsDiscarded ==
    matches.searched =>
        /\ ListFollowsLadder(meaningful_words(QueryWords))
        /\ query = ExampleQuery =>
              /\ \A j \in 1..Len(meaningful_words(QueryWords)) :
                    meaningful_words(QueryWords)[j] \notin {<< "a" >>, << "nice" >>}
              /\ ScoreOfFile(NiceTable) = 0
              /\ (\E i \in 1..Len(assets) : assets[i] = Chair4k) => ScoreOfFile(Chair4k) = 100

\* C18: the score of every file is the value of the first rule of the ladder
\* 100, 90, 85, 80, 70, 60 that matches, files that match no rule are not
\* returned, and the words of the 100 and 90 rules are the words of the query
\* with at least three characters other than add, the, create, make, place,
\* import, put; for the query "a nice red chair" only "a" is discarded,
\* chair_4k.obj scores 100 and nice_table.stl scores 90.
C18_LadderOverWordsOfLength3 ==
    matches.searched =>
        /\ ListFollowsLadder(WordsOfLength3(QueryWords))
        /\ query = ExampleQuery =>
              /\ WordsOfLength3(QueryWords) = << << "nice" >>, << "red" >>, << "chair" >> >>
              /\ (\E i \in 1..Len(assets) : assets[i] = Chair4k) => ScoreOfFile(Chair4k) = 100
              /\ (\E i \in 1..Len(assets) : assets[i] = NiceTable) => ScoreOfFile(NiceTable) = 90

C18_Witness ==
    /\ matches.searched
    /\ query = ExampleQuery
    /\ ScoreOfFile(Chair4k) = 100
    /\ ScoreOfFile(NiceTable) = 90
    /\ ScoreOfFile(RedChair) = 90
    /\ ScoreOfFile(Theater) = 0

\* C28: the import script generate_blender_code returns for a library model
\* is accepted by validate_code_safety (only allowlisted imports, no
\* blocklisted pattern, clean syntax) and by validate_script.
C28_ImportScriptPassesSafetyFilter ==
    generated.via = "asset" =>
        /\ validate_code_safety(generated.code.text).is_safe
        /\ validate_script(generated.code.text)

(***************************************************************************)
(* Claims about the split of a completion (ResponseSpec)                   *)
(***************************************************************************)

GotCode == generated.kind = "ok" /\ generated.via = "backend"

HasFence == Contains(reply.content, Fence)

\* The number of fences of a text
FenceCount(text) == Len(SplitOn(text, Fence)) - 1

\* The text before the first fence, and the text between the first fence and
\* the next one without the language tag of the first
BeforeFirstFence(text) == SplitOn(text, Fence)[1]
InsideFirstFence(text) ==
    With(SplitOn(text, Fence)[2], LAMBDA block :
        IF block # << >> /\ block[1] = "python" THEN Tail(block) ELSE block)

\* C12: for every completion that holds a fenced code block, the message
\* generate_blender_code returns is the trimmed text before the first fence
\* and the code is the trimmed text inside that fence.
C12_FirstFenceSplitsResponse ==
    (GotCode /\ HasFence) =>
        /\ generated.message.text = StrStrip(BeforeFirstFence(reply.content))
        /\ generated.code.text = StrStrip(InsideFirstFence(reply.content))

\* C13: for every completion without a code fence, generate_blender_code
\* returns the whole text as the code and the fixed fallback message, with no
\* error.
C13_NoFenceIsAllCode ==
    (generated.kind # "not_run" /\ ~HasFence) =>
        generated = Generated("ok", "backend", Str(reply.content), Str(FallbackMessage), None)

C13_Witness ==
    /\ GotCode
    /\ reply.content = << "\n", "Sure!", "\n", DefOk, "\n" >>
    /\ generated.code.text = reply.content
    /\ generated.message.text = FallbackMessage

\* C14: when a completion holds several fenced blocks, the code is the text
\* of the first block, tagged or not, and no later block becomes the code.
C14_FirstBlockWins ==
    (GotCode /\ FenceCount(reply.content) >= 3) =>
        generated.code.text = StrStrip(InsideFirstFence(reply.content))

(***************************************************************************)
(* Claims about the import of a library file (ImportSpec)                  *)
(***************************************************************************)

ResponseType(op) ==
    CASE op = "ws.ping"             -> "pong"
      [] op = "ws.transcribe_audio" -> "transcription"
      [] op = "ws.send_message"     -> "message_received"
      [] op = "ws.get_messages"     -> "messages_list"
      [] op = "ws.execute_code"     -> "execution_result"
      [] op = "ws.clear_chat"       -> "chat_cleared"
      [] OTHER                      -> "error"

Received ==
    last.op \in {"ws.ping", "ws.transcribe_audio", "ws.send_message", "ws.get_messages",
                 "ws.execute_code", "ws.clear_chat", "ws.unknown", "ws.invalid"}

SendTimers == SelectSeq(timers, LAMBDA t : t.kind = "send")

\* C20: every message received on a connection (ping, transcribe_audio,
\* send_message, get_messages, execute_code, clear_chat, an unknown type,
\* invalid JSON) is answered with exactly one direct response of its type and
\* no broadcast; a send_message registers exactly one timer, and the run of
\* that timer makes exactly one broadcast, which carries the new turn or the
\* error, and no direct response.
C20_OneResponsePerMessage ==
    /\ [](Received =>
            /\ wire.direct = << ResponseType(last.op) >>
            /\ wire.broadcast = << >>)
    /\ [](wire.broadcast # << >> => last.op = "timer.send_message")
    /\ [](last.op = "timer.send_message" =>
            /\ wire.direct = << >>
            /\ Len(wire.broadcast) = 1
            /\ wire.broadcast[1] \in {"new_message", "error", "message_response"})
    /\ [][Len(SendTimers') > Len(SendTimers) =>
            /\ Len(SendTimers') = Len(SendTimers) + 1
            /\ last'.op = "ws.send_message"
            /\ wire' = Respond("message_received")]_vars
    /\ [][Len(SendTimers') < Len(SendTimers) =>
            /\ Len(SendTimers') = Len(SendTimers) - 1
            /\ ~main.busy
            /\ main'.busy /\ main'.via = "timer"]_vars
    /\ [][(main.busy /\ main.via = "timer" /\ main' # main) =>
            /\ ~main'.busy
            /\ last'.op = "timer.send_message"
            /\ Len(wire'.broadcast) = 1]_vars

C20_Witness ==
    /\ last.op = "timer.send_message"
    /\ wire.broadcast = << "error" >>
    /\ Len(chat_messages) = 4
    /\ timers # << >>

\* C29: a get_messages request that follows the chat_cleared response, with
\* no handler finished in between, returns the empty list (the request
\* returns the log as it is when the handler runs), and a send_message that
\* was deferred before the clear appends no turn once the clear has been
\* acknowledged.
C29_ClearIsDoneWhenAcknowledged ==
    /\ [][(last.op = "ws.clear_chat" /\ last'.op = "ws.get_messages") =>
             chat_messages' = << >>]_vars
    /\ [][(last.op = "ws.clear_chat" /\ main.busy /\ main.via = "timer" /\ ~main'.busy) =>
             chat_messages' = chat_messages]_vars

(***************************************************************************)
(* Claims about the sends (SendSpec)                                       *)
(***************************************************************************)

SendBegins == ~main.busy /\ main'.busy /\ main'.via \in {"operator", "timer"}
SendEnds   == main.busy /\ main.via \in {"operator", "timer"} /\ ~main'.busy

\* The log after the step is the log before it with one more turn, of one of
\* the roles
AppendsOne(roles) ==
    /\ Len(chat_messages') = Len(chat_messages) + 1
    /\ SubSeq(chat_messages', 1, Len(chat_messages)) = chat_messages
    /\ chat_messages'[Len(chat_messages')].role \in roles

\* C27: every send of an instruction appends a USER turn and then exactly one
\* AI or SYSTEM turn, whatever the outcome, and the thinking flag is false
\* when the send is over; a send of an empty or white-space instruction
\* appends nothing and asks no backend.
C27_SendAppendsTwoTurns ==
    /\ [][SendBegins => (Strip(main'.prompt) # "" /\ AppendsOne({"USER"}))]_vars
    /\ [][SendEnds => (AppendsOne({"AI", "SYSTEM"}) /\ ~is_thinking')]_vars
    /\ [][chat_messages' # chat_messages => (SendBegins \/ SendEnds)]_vars

(***************************************************************************)
(* model_interface.py: the settings of a request                           *)
(*                                                                         *)
(* A line of the .env file and the value of a setting are texts: sequences *)
(* of fragments.  A temperature is written as its numeral.                 *)
(***************************************************************************)

OPENAI_API_KEY     == << "OPENAI_API_KEY" >>
OPENAI_MODEL       == << "OPENAI_MODEL" >>
OPENAI_TEMPERATURE == << "OPENAI_TEMPERATURE" >>

\* line.split('=', 1) of a line that contains '='
SplitAssignment(line) ==
    With(FirstIn(line, 1, {"="}), LAMBDA eq :
        [key |-> SubSeq(line, 1, eq - 1), value |-> SubSeq(line, eq + 1, Len(line))])

\* Lines 26-30: the dictionary after the lines read so far; a later line
\* replaces the value an earlier one gave to the same key
RECURSIVE ReadLines(_, _)
ReadLines(lines, env_vars) ==
    IF lines = << >> THEN env_vars
    ELSE With(StrStrip(Head(lines)), LAMBDA line :
            IF line # << >> /\ line[1] # "#" /\ In(<< "=" >>, line)
            THEN With(SplitAssignment(line), LAMBDA kv :
                    ReadLines(Tail(lines),
                              [k \in DOMAIN env_vars \cup {StrStrip(kv.key)} |->
                                  IF k = StrStrip(kv.key) THEN StrStrip(kv.value)
                                  ELSE env_vars[k]]))
            ELSE ReadLines(Tail(lines), env_vars))

load_env_file(file) ==
    IF file.exists THEN ReadLines(file.lines, << >>) ELSE << >>

\* dict.get(key, default)
Get(env_vars, key, default) ==
    IF key \in DOMAIN env_vars THEN Str(env_vars[key]) ELSE default

get_api_key(file, panel) ==
    With(Get(load_env_file(file), OPENAI_API_KEY, Str(<< >>)), LAMBDA api_key :
        IF ~Truthy(api_key) THEN panel.openai_api_key ELSE api_key.text)

\* float(text): the numerals of the model, and the ValueError of any other text
Numerals == {"0.2", "0.7", "0.70", "1.0"}
Float(text) ==
    With(StrStrip(text), LAMBDA t :
        IF Len(t) = 1 /\ t[1] \in Numerals
        THEN [ok |-> TRUE, value |-> IF t[1] = "0.70" THEN "0.7" ELSE t[1]]
        ELSE [ok |-> FALSE, value |-> ""])

get_model_settings(file, panel) ==
    With(load_env_file(file), LAMBDA env_vars :
        LET from_file     == Get(env_vars, OPENAI_MODEL, None)
            display_model == IF Truthy(from_file) THEN from_file.text
                             ELSE IF panel.model_name # << >> THEN panel.model_name
                             ELSE << "rendermind-v1" >>
            parsed        == Float(Get(env_vars, OPENAI_TEMPERATURE, Str(<< "0.7" >>)).text)
        IN  [display_model |-> display_model,
             model         |-> IF display_model = << "rendermind-v1" >>
                               THEN << "gpt-4o-mini" >> ELSE display_model,
             temperature   |-> IF parsed.ok THEN parsed.value ELSE panel.temperature])

(***************************************************************************)
(* SettingsSpec: a .env file and panel settings, then the two readers      *)
(***************************************************************************)

KeyLines ==
    { << >>,
      << <<"OPENAI_API_KEY", "=">> >>,
      << <<"OPENAI_API_KEY", "=", "sk-file">> >> }
ModelLines ==
    { << >>,
      << <<"OPENAI_MODEL", "=", "gpt-4o">> >>,
      << <<"OPENAI_MODEL", " ", "=", " ", "rendermind-v1", "\n">> >>,
      << <<"#", "OPENAI_MODEL", "=", "gpt-4o">> >> }
TemperatureLines ==
    { << >>,
      << <<"OPENAI_TEMPERATURE", "=", "0.2">> >>,
      << <<"OPENAI_TEMPERATURE", "=", "hot">> >>,
      << <<"OPENAI_TEMPERATURE", "=", "hot">>, <<"OPENAI_TEMPERATURE", "=", "0.70">> >> }

ConfigFiles ==
    {NoConfig} \cup
    { [exists |-> TRUE, lines |-> k \o m \o t] :
        k \in KeyLines, m \in ModelLines, t \in TemperatureLines }

PanelSettings ==
    [openai_api_key : {<< >>, <<"sk-panel">>},
     model_name     : {<< >>, <<"gpt-4">>, <<"rendermind-v1">>},
     temperature    : {"0.7", "1.0"}]

SettingsInit ==
    /\ Installed
    /\ GatewayUnused
    /\ config \in ConfigFiles
    /\ props \in PanelSettings
    /\ settings = NotResolved
    /\ server = NoServer
    /\ connected_clients = << >>
    /\ delivered = NotDelivered

GetApiKey ==
    /\ settings' = [NotResolved EXCEPT !.op = "get_api_key",
                                       !.api_key = get_api_key(config, props)]
    /\ UNCHANGED <<filterVars, mainVars, gatewayVars, config, props, server,
                   connected_clients, delivered>>

GetModelSettings ==
    /\ \E got \in {get_model_settings(config, props)} :
           settings' = [NotResolved EXCEPT !.op = "get_model_settings",
                                           !.model = got.model,
                                           !.display_model = got.display_model,
                                           !.temperature = got.temperature]
    /\ UNCHANGED <<filterVars, mainVars, gatewayVars, config, props, server,
                   connected_clients, delivered>>

SettingsNext == GetApiKey \/ GetModelSettings
SettingsSpec == SettingsInit /\ [][SettingsNext]_vars

(***************************************************************************)
(* Claims about the settings (SettingsSpec)                                *)
(***************************************************************************)

\* The file defines a setting when a line of it gives the setting a value
FileDefines(key) ==
    key \in DOMAIN load_env_file(config) /\ load_env_file(config)[key] # << >>
FileMentions(key) == key \in DOMAIN load_env_file(config)

Precedence(key, panel_value, default) ==
    IF FileDefines(key) THEN load_env_file(config)[key]
    ELSE IF panel_value # << >> THEN panel_value
    ELSE default

\* C22: the credential, the model name and the temperature each come from the
\* .env file when it defines the setting, else from the panel, else from the
\* default: a temperature the file does not mention is the panel's.
C22_FileThenPanelThenDefault ==
    /\ settings.op = "get_api_key" =>
           settings.api_key = Precedence(OPENAI_API_KEY, props.openai_api_key, << >>)
    /\ settings.op = "get_model_settings" =>
           /\ settings.display_model =
                  Precedence(OPENAI_MODEL, props.model_name, << "rendermind-v1" >>)
           /\ ~FileMentions(OPENAI_TEMPERATURE) => settings.temperature = props.temperature
           /\ (FileDefines(OPENAI_TEMPERATURE)
                   /\ Float(load_env_file(config)[OPENAI_TEMPERATURE]).ok) =>
                  settings.temperature = Float(load_env_file(config)[OPENAI_TEMPERATURE]).value

\* The part of C22 that is about the credential and the model name
C22_KeyAndModelFollowPrecedence ==
    /\ settings.op = "get_api_key" =>
           settings.api_key = Precedence(OPENAI_API_KEY, props.openai_api_key, << >>)
    /\ settings.op = "get_model_settings" =>
           settings.display_model =
               Precedence(OPENAI_MODEL, props.model_name, << "rendermind-v1" >>)

\* The temperature the code resolves: the file's when it parses, 0.7 when the
\* file does not mention it, the panel's only when the file's does not parse
C22_TemperatureAsCoded ==
    settings.op = "get_model_settings" =>
        settings.temperature =
            IF ~FileMentions(OPENAI_TEMPERATURE) THEN "0.7"
            ELSE IF Float(load_env_file(config)[OPENAI_TEMPERATURE]).ok
            THEN Float(load_env_file(config)[OPENAI_TEMPERATURE]).value
            ELSE props.temperature

C22_PanelTemperatureIgnored ==
    /\ settings.op = "get_model_settings"
    /\ ~FileMentions(OPENAI_TEMPERATURE)
    /\ props.temperature = "1.0"
    /\ settings.temperature = "0.7"

(***************************************************************************)
(* websocket_server.py: starting and stopping the servers                  *)
(*                                                                         *)
(* server.threads holds one entry per server thread ever started:          *)
(*   "started"       run_server_thread has not reached start_server yet    *)
(*   "returned"      start_server returned at line 296                     *)
(*   "serving"       websockets.serve succeeded, the thread awaits         *)
(*   "port_error"    start_server caught an OSError                        *)
(*   "server_error"  start_server caught another exception                 *)
(*   "closed"        the listening socket was closed by a stop             *)
(* server.server_instance is the index of the thread whose server the      *)
(* global refers to, 0 for None.  server.start is how the last             *)
(* start_websocket_server ended.                                           *)
(***************************************************************************)

MaxThreads == 3

ThreadIds == 1..Len(server.threads)

\* Port 8765 is held by a server of this process
PortHeld(threads) == \E i \in 1..Len(threads) : threads[i] = "serving"

\* start_http_server in its thread: the first HTTPServer binds port 8080, a
\* later one fails to bind and prints the error
StartHttp(http_server) == IF http_server = "none" THEN "serving" ELSE http_server

\* start_server, run by thread i up to the await of line 312
start_server(srv, i) ==
    IF ~srv.available
    THEN [srv EXCEPT !.threads[i] = "returned"]
    ELSE IF PortHeld(srv.threads) \/ srv.serve = "OSError"
    THEN [srv EXCEPT !.threads[i] = "port_error", !.server_running = FALSE]
    ELSE IF srv.serve = "Exception"
    THEN [srv EXCEPT !.threads[i] = "server_error", !.server_running = FALSE]
    ELSE [srv EXCEPT !.threads[i] = "serving", !.server_instance = i,
                     !.server_running = TRUE]

\* start_websocket_server; thread_starts is whether Thread.start() succeeds
start_websocket_server(srv, thread_starts) ==
    IF srv.server_running THEN [srv EXCEPT !.start = "refused"]
    ELSE IF ~thread_starts THEN [srv EXCEPT !.start = "thread_failed"]
    ELSE [srv EXCEPT !.server_running = TRUE,
                     !.threads = Append(@, "started"),
                     !.http_server = StartHttp(@),
                     !.start = "thread_started"]

stop_websocket_server(srv) ==
    [srv EXCEPT !.server_running = FALSE,
                !.threads = IF srv.server_instance # 0
                                /\ srv.threads[srv.server_instance] = "serving"
                            THEN [@ EXCEPT ![srv.server_instance] = "closed"]
                            ELSE @,
                !.http_server = IF @ = "none" THEN @ ELSE "shutdown"]

(***************************************************************************)
(* ServerSpec: the operators Start Web Server and Stop Web Server, and the *)
(* server threads                                                          *)
(***************************************************************************)

\* Whether the websockets library was imported, and what websockets.serve
\* does on a port that no server of this process holds
ServerHosts ==
    { [NoServer EXCEPT !.available = a, !.serve = o] :
        a \in BOOLEAN, o \in {"ok", "OSError", "Exception"} }

ServerInit ==
    /\ Installed
    /\ GatewayUnused
    /\ config = NoConfig
    /\ props = NoProps
    /\ settings = NotResolved
    /\ server \in ServerHosts
    /\ connected_clients = << >>
    /\ delivered = NotDelivered

ServerUnchanged ==
    UNCHANGED <<filterVars, mainVars, gatewayVars, config, props, settings,
                connected_clients, delivered>>

StartWebServer ==
    /\ server.server_running \/ Len(server.threads) < MaxThreads
    /\ \E thread_starts \in BOOLEAN :
           server' = start_websocket_server(server, thread_starts)
    /\ ServerUnchanged

RunServerThread ==
    /\ \E i \in ThreadIds :
           /\ server.threads[i] = "started"
           /\ server' = start_server(server, i)
    /\ ServerUnchanged

StopWebServer ==
    /\ server' = stop_websocket_server(server)
    /\ ServerUnchanged

ServerNext == StartWebServer \/ RunServerThread \/ StopWebServer
ServerSpec == ServerInit /\ [][ServerNext]_vars

(***************************************************************************)
(* Claims about the running flag (ServerSpec)                              *)
(***************************************************************************)

\* A server of this process is starting or listening
Started(srv) == \E i \in 1..Len(srv.threads) : srv.threads[i] \in {"started", "serving"}

FailedStates == {"returned", "port_error", "server_error"}

FlagOnlyWhileStarted == server.server_running => Started(server)

NoSecondThread ==
    [][server.server_running => Len(server'.threads) = Len(server.threads)]_vars

FailureResetsFlag ==
    [][\A i \in ThreadIds :
          (server.threads[i] = "started" /\ server'.threads[i] \in FailedStates)
              => ~server'.server_running]_vars

\* C30: server_running is true only while a server thread is starting or
\* listening; no thread is started while it is true; a start attempt that
\* fails leaves it false.
C30_FlagFollowsServer ==
    /\ []FlagOnlyWhileStarted
    /\ NoSecondThread
    /\ FailureResetsFlag

\* The same when the websockets library was imported
C30_FlagFollowsServerWithLibrary ==
    /\ [](server.available => FlagOnlyWhileStarted)
    /\ NoSecondThread
    /\ [][server.available =>
            \A i \in ThreadIds :
               (server.threads[i] = "started" /\ server'.threads[i] \in FailedStates)
                   => ~server'.server_running]_vars

\* Without the library: the flag is up, no server exists, a start was refused
C30_RefusedWithoutServer ==
    /\ ~server.available
    /\ server.server_running
    /\ ~Started(server)
    /\ server.start = "refused"

(***************************************************************************)
(* websocket_server.py: the broadcast                                      *)
(*                                                                         *)
(* connected_clients maps each connection of the global set to "open" or   *)
(* to "closed": a connection whose peer has gone and whose handle_client   *)
(* has not reached its finally clause yet.                                 *)
(***************************************************************************)

Clients == {"a", "b", "c"}

\* client.send(message_json): delivers, or raises ConnectionClosed
Send(state) == IF state = "open" THEN "sent" ELSE "ConnectionClosed"

\* asyncio.gather without return_exceptions: the first exception is raised
\* to the caller
GatherRaising(results) ==
    [raised |-> \E c \in DOMAIN results : results[c] # "sent",
     got    |-> {c \in DOMAIN results : results[c] = "sent"}]

\* asyncio.gather(*sends, return_exceptions=True): every send runs, the
\* exceptions are returned in the result list
Gather(results) ==
    [raised |-> FALSE,
     got    |-> {c \in DOMAIN results : results[c] = "sent"}]

broadcast_to_clients(clients, message) ==
    IF DOMAIN clients = {}
    THEN [NotDelivered EXCEPT !.op = "broadcast", !.message = message]
    ELSE With(Gather([c \in DOMAIN clients |-> Send(clients[c])]), LAMBDA done :
            [op |-> "broadcast", to |-> clients, raised |-> done.raised,
             got |-> done.got, message |-> message])

(***************************************************************************)
(* BroadcastSpec: connections come and go, results are broadcast           *)
(***************************************************************************)

BroadcastInit ==
    /\ Installed
    /\ GatewayUnused
    /\ HostUnused

BroadcastUnchanged ==
    UNCHANGED <<filterVars, mainVars, gatewayVars, config, props, settings, server>>

\* handle_client is entered for a new connection
ClientConnects ==
    /\ \E c \in Clients \ DOMAIN connected_clients :
           connected_clients' = [d \in DOMAIN connected_clients \cup {c} |->
                                    IF d = c THEN "open" ELSE connected_clients[d]]
    /\ UNCHANGED delivered
    /\ BroadcastUnchanged

\* The peer closes the connection
ConnectionCloses ==
    /\ \E c \in DOMAIN connected_clients :
           /\ connected_clients[c] = "open"
           /\ connected_clients' = [connected_clients EXCEPT ![c] = "closed"]
    /\ UNCHANGED delivered
    /\ BroadcastUnchanged

\* handle_client leaves its loop and removes the connection
ClientHandlerExits ==
    /\ \E c \in DOMAIN connected_clients :
           /\ connected_clients[c] = "closed"
           /\ connected_clients' = [d \in DOMAIN connected_clients \ {c} |->
                                       connected_clients[d]]
    /\ UNCHANGED delivered
    /\ BroadcastUnchanged

\* The coroutine add_message scheduled on the server loop runs
Broadcast ==
    /\ \E type \in {"new_message", "message_response", "error"} :
           delivered' = broadcast_to_clients(connected_clients, type)
    /\ UNCHANGED connected_clients
    /\ BroadcastUnchanged

BroadcastNext == ClientConnects \/ ConnectionCloses \/ ClientHandlerExits \/ Broadcast
BroadcastSpec == BroadcastInit /\ [][BroadcastNext]_vars

(***************************************************************************)
(* Claims about the broadcast (BroadcastSpec)                              *)
(***************************************************************************)

OpenRecipients   == {c \in DOMAIN delivered.to : delivered.to[c] = "open"}
ClosedRecipients == {c \in DOMAIN delivered.to : delivered.to[c] = "closed"}

\* C21: a broadcast never raises, whatever connections of the set are
\* closed, and every open connection of the set receives the message.
C21_ClosedRecipientIsContained ==
    delivered.op = "broadcast" =>
        /\ ~delivered.raised
        /\ OpenRecipients \subseteq delivered.got
        /\ delivered.got \cap ClosedRecipients = {}

\* A broadcast to two open connections and a closed one
C21_Witness ==
    /\ delivered.op = "broadcast"
    /\ Cardinality(ClosedRecipients) = 1
    /\ Cardinality(OpenRecipients) = 2
    /\ delivered.got = OpenRecipients

(***************************************************************************)
(* Claims about the emitter (EmitSpec)                                     *)
(***************************************************************************)

PlanHas(t) == \E i \in 1..Len(plan_text) : PlanLower(plan_text)[i] = t

\* No numeral follows the first "r=" of the plan
NoRadiusValue ==
    \A i \in 1..Len(plan_text) : \A j \in 1..Len(plan_text) :
        (PlanLower(plan_text)[i] = "r=" /\ j > i) => plan_text[j] # "0.3"

EntryPoints(src) ==
    Cardinality({i \in 1..Len(src) : src[i] \in {EmitHeader, DefOk, DefRaise, DefImport}})

PlaceholderScript ==
    << EmitHeader, "\n", Indent, "import", " ", "bpy",
       "\n", Indent, Placeholder, "\n", Indent, PrintNotImpl >>

SphereScriptDefaultRadius ==
    << EmitHeader, "\n", Indent, "import", " ", "bpy",
       "\n", Indent, SphereAdd05, "\n", Indent, ActiveObject, "\n", Indent, NameSphere,
       "\n", Indent, MatSphere, "\n", Indent, UseNodes, "\n", Indent, GetBsdf,
       "\n", Indent, BaseColor, "\n", Indent, AppendMat >>

\* The script of the last Apply is the one of the plan text
EmittedScriptFollowsPlan ==
    last.op = "rm.apply_plan" =>
        /\ last.script # << >>
        /\ last.script[1] = EmitHeader
        /\ EntryPoints(last.script) = 1
        /\ last.run.ran /\ last.run.err = ""
        /\ (~PlanHas("sphere") /\ ~PlanHas("cylinder")) => last.script = PlaceholderScript
        /\ (PlanHas("sphere") /\ PlanHas("r=") /\ NoRadiusValue) =>
               last.script = SphereScriptDefaultRadius

\* C24: whatever the plan text, the script emitted for it passes
\* validate_script, runs without an error and defines rendermind_action once;
\* a plan without "sphere" and "cylinder" gives the placeholder script, and a
\* sphere plan whose "r=" is followed by no number gives the sphere template
\* with radius 0.5.
C24_EmitIsTotal ==
    [][plan_text' = plan_text => EmittedScriptFollowsPlan']_vars

\* A plan with an unknown word was applied, and a sphere plan whose radius
\* is a word
C24_Witness ==
    /\ last.op = "rm.apply_plan"
    /\ plan_text = << "sphere", " ", "r=", "big" >>
    /\ last.script = SphereScriptDefaultRadius

C24_PlaceholderWitness ==
    /\ last.op = "rm.apply_plan"
    /\ plan_text = << "cube", " ", "r=", "0.3" >>
    /\ last.script = PlaceholderScript

====
